---- MODULE Spec2Model ----
(***************************************************************************)
(* Model of the regex-driven segmenter of legal_text_processor.py          *)
(* (class LegalTextParser) as run by procesar_archivo.                      *)
(*                                                                         *)
(* Text representation.  A text line is a sequence of atoms.  An atom is    *)
(* either one character or a chunk of characters that no pattern of the     *)
(* parser can split (a chunk never starts with a character that a character *)
(* class of a pattern could consume on its own: "CAPITULO" is written       *)
(* <<"C", "APITULO">> because [IVXLCDM]+ can consume its first letter).     *)
(* Atom names are ASCII: accents are left out of the names ("Articulo" is   *)
(* the word Arti'culo), EN_DASH / EM_DASH are the en and em dash, ORD is    *)
(* the ordinal mark and DEG the degree sign.  A document is a sequence of   *)
(* lines (contenido.split('\n')); line numbers are 0-based as in the code.  *)
(***************************************************************************)
EXTENDS Integers, Sequences, FiniteSets, TLC

VARIABLES contenido, pc, decreto, titulo, capitulos, transitorios, ley, dir, llm, call

vars == <<contenido, pc, decreto, titulo, capitulos, transitorios, ley, dir, llm, call>>

----------------------------------------------------------------------------
(* Character classes *)

WS == {" ", "TAB"}
Digits == {"0", "1", "2", "3", "4", "5", "6", "7", "8", "9"}
RomanUp == {"I", "V", "X", "L", "C", "D", "M"}
RomanLo == {"i", "v", "x", "l", "c", "d", "m"}
LowerAZ == RomanLo \cup {"a", "b", "e"}
Dashes == {"-", "EN_DASH", "EM_DASH"}

(* str.upper() on one atom, as used by re.IGNORECASE comparisons *)
Upper(a) ==
    CASE a = "i" -> "I" [] a = "v" -> "V" [] a = "x" -> "X" [] a = "l" -> "L"
      [] a = "c" -> "C" [] a = "d" -> "D" [] a = "m" -> "M"
      [] a = "a" -> "A" [] a = "b" -> "B" [] a = "e" -> "E"
      [] a = "s" -> "S"
      [] a = "ey" -> "EY"
      [] a = "apitulo" -> "APITULO"
      [] a = "Titulo" -> "TITULO"
      [] a = "Articulo" -> "ARTICULO"
      [] a = "Transitorios" -> "TRANSITORIOS"
      [] a = "Primero" -> "PRIMERO"
      [] a = "Segundo" -> "SEGUNDO"
      [] a = "Unico" -> "UNICO"
      [] a = "foo" -> "FOO"
      [] a = "bar" -> "BAR"
      [] a = "os" -> "OS"
      [] a = "no" -> "NO"
      [] a = "identificado" -> "IDENTIFICADO"
      [] a = "e_acute" -> "E_ACUTE"
      [] OTHER -> a

(* atoms without cased characters *)
Uncased == WS \cup Digits \cup Dashes
           \cup {".", ")", "ORD", "DEG", "copyright", "u0081", "cjk"}

HasCased(a) == a \notin Uncased
HasLower(a) == HasCased(a) /\ Upper(a) # a

(* number of characters of an atom *)
AtomLen(a) ==
    CASE a \in {"ey", "EY", "os", "OS", "no", "NO"} -> 2
      [] a \in {"foo", "bar", "FOO", "BAR"} -> 3
      [] a \in {"Unico", "UNICO"} -> 5
      [] a \in {"Titulo", "TITULO", "ECRETO", "ESTADO"} -> 6
      [] a \in {"apitulo", "APITULO", "Primero", "PRIMERO", "Segundo",
                "SEGUNDO", "NGRESOS", "TERCERO"} -> 7
      [] a \in {"Articulo", "ARTICULO"} -> 8
      [] a \in {"Transitorios", "TRANSITORIOS", "identificado"} -> 12
      [] a = "ART" -> 3
      [] a = "IBRO" -> 4
      [] a = "SECCION" -> 7
      [] a = "TRANSITORIO" -> 11
      [] a = "X3000" -> 3000
      [] OTHER -> 1

----------------------------------------------------------------------------
(* String helpers *)

RECURSIVE SumLen(_)
SumLen(s) == IF s = <<>> THEN 0 ELSE AtomLen(Head(s)) + SumLen(Tail(s))

(* len(s) *)
StrLen(s) == SumLen(s)

(* first index >= i whose atom is not in S, Len(s)+1 if none *)
SkipWhile(s, i, S) ==
    CHOOSE j \in i..(Len(s) + 1) :
        /\ \A k \in i..(j - 1) : s[k] \in S
        /\ (j = Len(s) + 1 \/ s[j] \notin S)

(* last index whose atom is not in S, 0 if none *)
SkipBack(s, S) ==
    CHOOSE j \in 0..Len(s) :
        /\ \A k \in (j + 1)..Len(s) : s[k] \in S
        /\ (j = 0 \/ s[j] \notin S)

From(s, i) == SubSeq(s, i, Len(s))

(* str.strip() *)
Strip(s) == SubSeq(s, SkipWhile(s, 1, WS), SkipBack(s, WS))

(* str.rstrip('.') *)
RStripDot(s) == SubSeq(s, 1, SkipBack(s, {"."}))

UpperSeq(s) == [i \in 1..Len(s) |-> Upper(s[i])]

(* str.isupper(): at least one cased character and no lowercase one *)
IsUpper(s) ==
    /\ \E i \in 1..Len(s) : HasCased(s[i])
    /\ \A i \in 1..Len(s) : ~HasLower(s[i])

(* sep.join(parts) for a sequence of texts *)
RECURSIVE Join(_, _)
Join(sep, parts) ==
    IF parts = <<>> THEN <<>>
    ELSE IF Len(parts) = 1 THEN parts[1]
    ELSE parts[1] \o sep \o Join(sep, Tail(parts))

(* does the literal w (a sequence of atoms) occur in s at index i,        *)
(* compared case-insensitively when ic is TRUE                             *)
LitAt(s, i, w, ic) ==
    /\ i + Len(w) - 1 <= Len(s)
    /\ \A k \in 1..Len(w) :
          IF ic THEN Upper(s[i + k - 1]) = Upper(w[k]) ELSE s[i + k - 1] = w[k]

At(s, i) == IF i >= 1 /\ i <= Len(s) THEN s[i] ELSE "EOL"

----------------------------------------------------------------------------
(* limpiar_texto: re.sub(r'\s+', ' ', texto.strip()) then dashes to '-' *)

RECURSIVE CollapseWS(_)
CollapseWS(s) ==
    IF s = <<>> THEN <<>>
    ELSE IF Head(s) \in WS
         THEN <<" ">> \o CollapseWS(From(s, SkipWhile(s, 1, WS)))
         ELSE <<Head(s)>> \o CollapseWS(Tail(s))

limpiar_texto(texto) ==
    LET t == CollapseWS(Strip(texto))
    IN  [i \in 1..Len(t) |-> IF t[i] \in {"EN_DASH", "EM_DASH"} THEN "-" ELSE t[i]]

----------------------------------------------------------------------------
(* self.patterns and the inline patterns, applied with .match / re.search   *)
(* to one stripped line                                                    *)

Roman == RomanUp \cup RomanLo

(* TITULO | CAPITULO *)
CapKw == {<<"TITULO">>, <<"C", "APITULO">>}

(* LEY | CODIGO | CONSTITUCION | REGLAMENTO *)
TitleKw == {<<"L", "EY">>, <<"C", "ODIGO">>, <<"C", "ONSTITUCION">>, <<"REGLAMENTO">>}

OrdinalWords ==
    {<<"PRIMERO">>, <<"SEGUNDO">>, <<"TERCERO">>, <<"C", "UARTO">>, <<"QUINTO">>,
     <<"SEXTO">>, <<"SEPTIMO">>, <<"OCTAVO">>, <<"NOVENO">>, <<"D", "ECIMO">>}

NoMatch == [ok |-> FALSE, g1 |-> <<>>, g2 |-> <<>>]

(* the common tail  \s*[-EN_DASH EM_DASH]?\s*(rest)  starting at index k:     *)
(* the index where group 2 starts                                          *)
AfterSep(s, k) ==
    LET a == SkipWhile(s, k, WS)
        b == IF At(s, a) \in Dashes THEN a + 1 ELSE a
    IN  SkipWhile(s, b, WS)

(* patterns['capitulo']:                                                    *)
(* ^(TITULO|CAPITULO)\s+([IVXLCDM]+|[0-9]+|PRIMERO|SEGUNDO|TERCERO|UNICO)rest$ *)
(* with re.IGNORECASE                                                       *)
MatchCapitulo(s) ==
    \E kw \in CapKw :
        /\ LitAt(s, 1, kw, TRUE)
        /\ LET i == Len(kw) + 1
               j == SkipWhile(s, i, WS)
           IN  /\ j > i
               /\ \/ At(s, j) \in Roman \cup Digits
                  \/ Upper(At(s, j)) \in {"PRIMERO", "SEGUNDO", "TERCERO", "UNICO"}

(* patterns['articulo']:                                                    *)
(* ^Articulo\s+([0-9]+ORD?|UNICO|Unico)\.?\s*[-EN_DASH EM_DASH]?\s*(rest)     *)
(* case-sensitive                                                           *)
MatchArticulo(s) ==
    IF ~LitAt(s, 1, <<"Articulo">>, FALSE) THEN NoMatch
    ELSE
        LET j == SkipWhile(s, 2, WS)
            d == SkipWhile(s, j, Digits)
            k == IF At(s, j) \in Digits
                 THEN (IF At(s, d) = "ORD" THEN d + 1 ELSE d)
                 ELSE j + 1
            p == IF At(s, k) = "." THEN k + 1 ELSE k
        IN  IF j = 2 \/ At(s, j) \notin Digits \cup {"UNICO", "Unico"} THEN NoMatch
            ELSE [ok |-> TRUE, g1 |-> SubSeq(s, j, k - 1), g2 |-> From(s, AfterSep(s, p))]

(* patterns['fraccion']:                                                    *)
(* ^([IVXLCDM]+|[a-z]\)|[0-9]+\))\.\s*[-EN_DASH EM_DASH]?\s*(rest)            *)
(* case-sensitive                                                           *)
MatchFraccion(s) ==
    LET r == SkipWhile(s, 1, RomanUp)
        d == SkipWhile(s, 1, Digits)
        k == IF At(s, 1) \in RomanUp THEN r
             ELSE IF At(s, 1) \in LowerAZ /\ At(s, 2) = ")" THEN 3
             ELSE IF At(s, 1) \in Digits /\ At(s, d) = ")" THEN d + 1
             ELSE 0
    IN  IF k = 0 \/ At(s, k) # "." THEN NoMatch
        ELSE [ok |-> TRUE, g1 |-> SubSeq(s, 1, k - 1), g2 |-> From(s, AfterSep(s, k + 1))]

(* patterns['transitorios']: ^(TRANSITORIOS|ARTICULOS?\s+TRANSITORIOS)      *)
(* with re.IGNORECASE                                                       *)
MatchTransitorios(s) ==
    \/ LitAt(s, 1, <<"TRANSITORIOS">>, TRUE)
    \/ /\ LitAt(s, 1, <<"ARTICULO">>, TRUE)
       /\ LET i == IF Upper(At(s, 2)) = "S" THEN 3 ELSE 2
              j == SkipWhile(s, i, WS)
          IN  j > i /\ LitAt(s, j, <<"TRANSITORIOS">>, TRUE)

(* patterns['transitorio_item']:                                            *)
(* ^(PRIMERO|...|DECIMO|[0-9]+ORD?|[IVXLCDM]+)\.?\s*[-EN_DASH EM_DASH]?\s*(rest) *)
(* with re.IGNORECASE; the alternatives are tried in this order             *)
MatchTransitorioItem(s) ==
    LET words == {w \in OrdinalWords : LitAt(s, 1, w, TRUE)}
        d == SkipWhile(s, 1, Digits)
        k == IF words # {} THEN Len(CHOOSE w \in words : TRUE) + 1
             ELSE IF At(s, 1) \in Digits
                  THEN (IF At(s, d) = "ORD" THEN d + 1 ELSE d)
             ELSE IF At(s, 1) \in Roman THEN SkipWhile(s, 1, Roman)
             ELSE 0
        p == IF At(s, k) = "." THEN k + 1 ELSE k
    IN  IF k = 0 THEN NoMatch
        ELSE [ok |-> TRUE, g1 |-> SubSeq(s, 1, k - 1), g2 |-> From(s, AfterSep(s, p))]

(* re.search(r'^(LEY|CODIGO|CONSTITUCION|REGLAMENTO)', linea, re.IGNORECASE) *)
MatchTitleKw(s) == \E kw \in TitleKw : LitAt(s, 1, kw, TRUE)

(* re.search(r'^(LEY|CODIGO|CONSTITUCION|REGLAMENTO|TITULO|CAPITULO)', ...)  *)
MatchDecretoStop(s) == \E kw \in TitleKw \cup CapKw : LitAt(s, 1, kw, TRUE)

(* words separated and followed by \s+, matched case-insensitively from     *)
(* index i: the index after the last \s+, or 0 when there is no match       *)
RECURSIVE MatchWordsWS(_, _, _)
MatchWordsWS(s, i, ws) ==
    IF ws = <<>> THEN i
    ELSE LET w == Head(ws)
             j == SkipWhile(s, i + Len(w), WS)
         IN  IF LitAt(s, i, w, TRUE) /\ j > i + Len(w)
             THEN MatchWordsWS(s, j, Tail(ws))
             ELSE 0

(* a variant of StripTitlePrefix whose second alternative is LEY\s* *)
StripTitlePrefixSinEspacio(s) ==
    LET a == MatchWordsWS(s, 1, << <<"L", "EY">>, <<"D", "E">>, <<"I", "NGRESOS">>,
                                   <<"D", "E", "L">> >>)
    IN  IF a # 0 THEN From(s, a)
        ELSE IF LitAt(s, 1, <<"L", "EY">>, TRUE) THEN From(s, SkipWhile(s, 3, WS))
        ELSE s

(* re.sub(r'^(LEY\s+DE\s+INGRESOS\s+DEL\s+|LEY\s+)', '', linea, IGNORECASE)  *)
StripTitlePrefix(s) ==
    LET a == MatchWordsWS(s, 1, << <<"L", "EY">>, <<"D", "E">>, <<"I", "NGRESOS">>,
                                   <<"D", "E", "L">> >>)
        b == MatchWordsWS(s, 1, << <<"L", "EY">> >>)
    IN  IF a # 0 THEN From(s, a)
        ELSE IF b # 0 THEN From(s, b)
        ELSE s

----------------------------------------------------------------------------
(* Records.  Besides the fields of the pydantic models, each unit carries   *)
(* where it came from: hdr is the line of its header and src the set of     *)
(* lines whose text went into its texto (line numbers of contenido).        *)
(* str_strip_whitespace of the pydantic Config is the Strip on each string. *)

Fraccion(fraccion, texto, hdr, src) ==
    [fraccion |-> Strip(fraccion), texto |-> Strip(texto), hdr |-> hdr, src |-> src]

Articulo(articulo, texto, fracciones, hdr, src) ==
    [articulo |-> articulo, texto |-> Strip(texto), fracciones |-> fracciones,
     hdr |-> hdr, src |-> src]

(* pos is the line of the chapter header (-1 for the implicit chapter) and  *)
(* ini, fin the range handed to parsear_articulos                           *)
Capitulo(capitulo, articulos, pos, ini, fin) ==
    [capitulo |-> Strip(capitulo), articulos |-> articulos,
     pos |-> pos, ini |-> ini, fin |-> fin]

Transitorio(articulo, texto, hdr, src) ==
    [articulo |-> Strip(articulo), texto |-> Strip(texto), hdr |-> hdr, src |-> src]

(* the texts of a list of accumulated pieces, and the lines they came from  *)
Texts(pieces) == [i \in 1..Len(pieces) |-> pieces[i].tx]
Lines(pieces) == {pieces[i].ln : i \in 1..Len(pieces)}

(* a piece of accumulated text: tx taken from line ln *)
Piece(ln, tx) == [ln |-> ln, tx |-> tx]

----------------------------------------------------------------------------
(* parsear_fracciones.  The argument is the list current_text of the        *)
(* caller: '\n'.join(current_text) followed by texto.split('\n') gives the  *)
(* same list back, because no piece holds a newline.                        *)

(* a variant of GuardarFraccion that also saves a fraccion without text *)
GuardarFraccionVacia(st) ==
    IF st.has /\ st.cur # <<>>
    THEN Append(st.out, Fraccion(st.cur, limpiar_texto(Join(<<" ">>, Texts(st.text))),
                                 st.hdr, Lines(st.text)))
    ELSE st.out

(* "Guardar fraccion anterior si existe" *)
GuardarFraccion(st) ==
    IF st.has /\ st.cur # <<>> /\ st.text # <<>>
    THEN Append(st.out, Fraccion(st.cur, limpiar_texto(Join(<<" ">>, Texts(st.text))),
                                 st.hdr, Lines(st.text)))
    ELSE st.out

RECURSIVE FraccionLoop(_, _, _)
FraccionLoop(lines, i, st) ==
    IF i > Len(lines) THEN GuardarFraccion(st)
    ELSE
        LET line == Strip(lines[i].tx)
            match == MatchFraccion(line)
        IN  IF line = <<>> THEN FraccionLoop(lines, i + 1, st)
            ELSE IF match.ok
            THEN FraccionLoop(lines, i + 1,
                     [out |-> GuardarFraccion(st),
                      has |-> TRUE,
                      cur |-> RStripDot(match.g1),
                      text |-> IF match.g2 # <<>>
                               THEN <<Piece(lines[i].ln, match.g2)>> ELSE <<>>,
                      hdr |-> lines[i].ln])
            ELSE IF st.has /\ st.cur # <<>>
            THEN FraccionLoop(lines, i + 1,
                     [st EXCEPT !.text = Append(@, Piece(lines[i].ln, line))])
            ELSE FraccionLoop(lines, i + 1, st)

parsear_fracciones(texto) ==
    FraccionLoop(texto, 1,
        [out |-> <<>>, has |-> FALSE, cur |-> <<>>, text |-> <<>>, hdr |-> -1])

----------------------------------------------------------------------------
(* parsear_articulos *)

DigitVal(a) ==
    CASE a = "0" -> 0 [] a = "1" -> 1 [] a = "2" -> 2 [] a = "3" -> 3 [] a = "4" -> 4
      [] a = "5" -> 5 [] a = "6" -> 6 [] a = "7" -> 7 [] a = "8" -> 8 [] a = "9" -> 9

(* int(s) for a string of decimal digits *)
RECURSIVE IntOf(_)
IntOf(s) ==
    IF s = <<>> THEN 0
    ELSE 10 * IntOf(SubSeq(s, 1, Len(s) - 1)) + DigitVal(s[Len(s)])

(* str.isdigit() *)
IsDigit(s) == s # <<>> /\ \A i \in 1..Len(s) : s[i] \in Digits

(* match.group(1).replace(ORD, '').replace(DEG, '') *)
DropOrdinal(s) == SelectSeq(s, LAMBDA a : a \notin {"ORD", "DEG"})

(* An exception that escapes a pass is carried in place of the value it     *)
(* should have produced; article numbers matched by [0-9]+ are never        *)
(* negative, so the marker cannot be taken for a number.                    *)
ValueError == 0 - 1

(* int(s): the value of a decimal string, ValueError for any other string *)
IntPy(s) == IF IsDigit(s) THEN IntOf(s) ELSE ValueError

(* a variant of ArticuloNum that does not remove the ordinal mark *)
ArticuloNumConOrdinal(g1) ==
    LET r == IF IsDigit(g1) THEN IntPy(g1) ELSE 1
    IN  IF r = ValueError THEN 1 ELSE r

(* a variant of ArticuloNum without the isdigit test and the except clause *)
ArticuloNumSinGuarda(g1) == IntPy(DropOrdinal(g1))

(* try: int(articulo_num_str) if articulo_num_str.isdigit() else 1          *)
(* except: 1                                                                *)
ArticuloNum(g1) ==
    LET articulo_num_str == DropOrdinal(g1)
        r == IF IsDigit(articulo_num_str) THEN IntPy(articulo_num_str) ELSE 1
    IN  IF r = ValueError THEN 1 ELSE r

(* index (0-based) of the first piece whose text matches the fraccion       *)
(* pattern, -1 for None                                                     *)
FirstFractionLine(text) ==
    LET hits == {i \in 1..Len(text) : MatchFraccion(Strip(text[i].tx)).ok}
    IN  IF hits = {} THEN -1
        ELSE (CHOOSE i \in hits : \A k \in hits : i <= k) - 1

(* a variant of CuerpoArticulo that never cuts the text at the fracciones *)
CuerpoArticuloSinCorte(text, fracciones) == text

(* a variant of CuerpoArticulo that cuts the text at the header of the first *)
(* fraccion that parsear_fracciones returned                                *)
CuerpoArticuloPrimeraDevuelta(text, fracciones) ==
    IF fracciones # <<>>
    THEN SelectSeq(text, LAMBDA p : p.ln < fracciones[1].hdr)
    ELSE text

(* the text kept as the article's own text: the pieces before the first     *)
(* fraccion line when parsear_fracciones found fracciones, else all pieces  *)
CuerpoArticulo(text, fracciones) ==
    LET first_fraction_line == FirstFractionLine(text)
    IN  IF fracciones # <<>> /\ first_fraction_line # -1
        THEN SubSeq(text, 1, first_fraction_line)
        ELSE text

(* a variant of GuardarArticulo that puts the article at the front of the   *)
(* list (insert(0, ...) for append)                                         *)
GuardarArticuloAlFrente(st) ==
    IF st.has /\ st.text # <<>>
    THEN LET fracciones == parsear_fracciones(st.text)
             cuerpo == CuerpoArticulo(st.text, fracciones)
         IN  <<Articulo(st.cur, limpiar_texto(Join(<<" ">>, Texts(cuerpo))),
                        fracciones, st.hdr, Lines(cuerpo))>> \o st.out
    ELSE st.out

(* "Guardar articulo anterior si existe" / "Guardar ultimo articulo" *)
GuardarArticulo(st) ==
    IF st.has /\ st.text # <<>>
    THEN LET fracciones == parsear_fracciones(st.text)
             cuerpo == CuerpoArticulo(st.text, fracciones)
         IN  Append(st.out,
                 Articulo(st.cur, limpiar_texto(Join(<<" ">>, Texts(cuerpo))),
                          fracciones, st.hdr, Lines(cuerpo)))
    ELSE st.out

(* a variant of ArticuloLoop that skips a chapter header line and goes on *)
RECURSIVE ArticuloLoopSinParada(_, _, _, _)
ArticuloLoopSinParada(lines, ln, fin, st) ==
    IF ln >= fin \/ ln >= Len(lines) THEN GuardarArticulo(st)
    ELSE
        LET line == Strip(lines[ln + 1])
            match == MatchArticulo(line)
        IN  IF line = <<>> THEN ArticuloLoopSinParada(lines, ln + 1, fin, st)
            ELSE IF MatchCapitulo(line) THEN ArticuloLoopSinParada(lines, ln + 1, fin, st)
            ELSE IF match.ok
            THEN ArticuloLoopSinParada(lines, ln + 1, fin,
                     [out |-> GuardarArticulo(st),
                      has |-> TRUE,
                      cur |-> ArticuloNum(match.g1),
                      text |-> IF match.g2 # <<>> THEN <<Piece(ln, match.g2)>> ELSE <<>>,
                      hdr |-> ln])
            ELSE IF st.has
            THEN ArticuloLoopSinParada(lines, ln + 1, fin,
                     [st EXCEPT !.text = Append(@, Piece(ln, line))])
            ELSE ArticuloLoopSinParada(lines, ln + 1, fin, st)

(* the loop over lines[inicio:fin]; ln is the 0-based line number *)
RECURSIVE ArticuloLoop(_, _, _, _)
ArticuloLoop(lines, ln, fin, st) ==
    IF ln >= fin \/ ln >= Len(lines) THEN GuardarArticulo(st)
    ELSE
        LET line == Strip(lines[ln + 1])
            match == MatchArticulo(line)
        IN  IF line = <<>> THEN ArticuloLoop(lines, ln + 1, fin, st)
            ELSE IF MatchCapitulo(line) THEN GuardarArticulo(st)
            ELSE IF match.ok
            THEN ArticuloLoop(lines, ln + 1, fin,
                     [out |-> GuardarArticulo(st),
                      has |-> TRUE,
                      cur |-> ArticuloNum(match.g1),
                      text |-> IF match.g2 # <<>> THEN <<Piece(ln, match.g2)>> ELSE <<>>,
                      hdr |-> ln])
            ELSE IF st.has
            THEN ArticuloLoop(lines, ln + 1, fin,
                     [st EXCEPT !.text = Append(@, Piece(ln, line))])
            ELSE ArticuloLoop(lines, ln + 1, fin, st)

parsear_articulos(lines, inicio, fin) ==
    ArticuloLoop(lines, inicio, fin,
        [out |-> <<>>, has |-> FALSE, cur |-> 0, text |-> <<>>, hdr |-> -1])

----------------------------------------------------------------------------
(* parsear_capitulos *)

(* "CAPITULO UNICO", the label of the implicit chapter *)
CapituloUnico == <<"C", "APITULO", " ", "UNICO">>

(* capitulo_positions: the 0-based lines whose stripped text matches the    *)
(* capitulo pattern, in order (the label is lines[pos].strip())             *)
CapituloPositions(lines) ==
    SelectSeq([i \in 1..Len(lines) |-> i - 1],
              LAMBDA p : MatchCapitulo(Strip(lines[p + 1])))

(* a variant of FinPos that looks for the transitorios line in every        *)
(* chapter, not only in the last one                                        *)
FinPosCualquierCapitulo(lines, positions, i) ==
    LET pos == positions[i]
        siguiente == IF i + 1 <= Len(positions) THEN positions[i + 1] ELSE Len(lines)
        hits == {j \in pos..(siguiente - 1) : MatchTransitorios(Strip(lines[j + 1]))}
    IN  IF hits # {}
        THEN CHOOSE j \in hits : \A k \in hits : j <= k
        ELSE siguiente

(* a variant of FinPos that lets every chapter run to the end of the text   *)
FinPosHastaElFinal(lines, positions, i) == Len(lines)

(* fin_pos of chapter i (1-based index into positions): the next chapter    *)
(* header, or for the last chapter the first transitorios line from pos on, *)
(* or len(lines)                                                            *)
FinPos(lines, positions, i) ==
    LET pos == positions[i]
        siguiente == IF i + 1 <= Len(positions) THEN positions[i + 1] ELSE Len(lines)
        hits == {j \in pos..(Len(lines) - 1) : MatchTransitorios(Strip(lines[j + 1]))}
    IN  IF i = Len(positions) /\ hits # {}
        THEN CHOOSE j \in hits : \A k \in hits : j <= k
        ELSE siguiente

(* a variant of CapituloLoop that keeps the chapters without articles *)
RECURSIVE CapituloLoopSinFiltro(_, _, _, _)
CapituloLoopSinFiltro(lines, positions, i, out) ==
    IF i > Len(positions) THEN out
    ELSE
        LET pos == positions[i]
            fin_pos == FinPos(lines, positions, i)
            articulos == parsear_articulos(lines, pos + 1, fin_pos)
        IN  CapituloLoopSinFiltro(lines, positions, i + 1,
                Append(out, Capitulo(Strip(lines[pos + 1]), articulos,
                                     pos, pos + 1, fin_pos)))

RECURSIVE CapituloLoop(_, _, _, _)
CapituloLoop(lines, positions, i, out) ==
    IF i > Len(positions) THEN out
    ELSE
        LET pos == positions[i]
            fin_pos == FinPos(lines, positions, i)
            articulos == parsear_articulos(lines, pos + 1, fin_pos)
        IN  CapituloLoop(lines, positions, i + 1,
                IF articulos # <<>>
                THEN Append(out, Capitulo(Strip(lines[pos + 1]), articulos,
                                          pos, pos + 1, fin_pos))
                ELSE out)

(* the ranges (inicio, fin) that parsear_capitulos hands to                 *)
(* parsear_articulos, in call order                                         *)
ArticulosCalls(lines) ==
    LET capitulo_positions == CapituloPositions(lines)
    IN  IF capitulo_positions = <<>>
        THEN <<[inicio |-> 0, fin |-> Len(lines)]>>
        ELSE [i \in 1..Len(capitulo_positions) |->
                 [inicio |-> capitulo_positions[i] + 1,
                  fin |-> FinPos(lines, capitulo_positions, i)]]

(* a variant of parsear_capitulos without the implicit chapter *)
parsear_capitulos_SinUnico(lines) ==
    CapituloLoop(lines, CapituloPositions(lines), 1, <<>>)

parsear_capitulos(lines) ==
    LET capitulo_positions == CapituloPositions(lines)
    IN  IF capitulo_positions = <<>>
        THEN LET articulos == parsear_articulos(lines, 0, Len(lines))
             IN  IF articulos # <<>>
                 THEN <<Capitulo(CapituloUnico, articulos, 0 - 1, 0, Len(lines))>>
                 ELSE <<>>
        ELSE CapituloLoop(lines, capitulo_positions, 1, <<>>)

----------------------------------------------------------------------------
(* parsear_transitorios *)

(* inicio_transitorios: the first line matching the transitorios pattern,   *)
(* -1 for None                                                              *)
InicioTransitorios(lines) ==
    LET hits == {j \in 0..(Len(lines) - 1) : MatchTransitorios(Strip(lines[j + 1]))}
    IN  IF hits = {} THEN 0 - 1 ELSE CHOOSE j \in hits : \A k \in hits : j <= k

(* "Guardar transitorio anterior si existe" *)
GuardarTransitorio(st) ==
    IF st.has /\ st.cur # <<>> /\ st.text # <<>>
    THEN Append(st.out,
             Transitorio(st.cur, limpiar_texto(Join(<<" ">>, Texts(st.text))),
                         st.hdr, Lines(st.text)))
    ELSE st.out

RECURSIVE TransitorioLoop(_, _, _)
TransitorioLoop(lines, ln, st) ==
    IF ln >= Len(lines) THEN GuardarTransitorio(st)
    ELSE
        LET line == Strip(lines[ln + 1])
            match == MatchTransitorioItem(line)
        IN  IF line = <<>> THEN TransitorioLoop(lines, ln + 1, st)
            ELSE IF match.ok
            THEN TransitorioLoop(lines, ln + 1,
                     [out |-> GuardarTransitorio(st),
                      has |-> TRUE,
                      cur |-> RStripDot(match.g1),
                      text |-> IF match.g2 # <<>> THEN <<Piece(ln, match.g2)>> ELSE <<>>,
                      hdr |-> ln])
            ELSE IF st.has /\ st.cur # <<>>
            THEN TransitorioLoop(lines, ln + 1,
                     [st EXCEPT !.text = Append(@, Piece(ln, line))])
            ELSE TransitorioLoop(lines, ln + 1, st)

(* a variant of parsear_transitorios without the test for a missing header *)
parsear_transitorios_SinCabecera(lines) ==
    TransitorioLoop(lines, InicioTransitorios(lines) + 1,
        [out |-> <<>>, has |-> FALSE, cur |-> <<>>, text |-> <<>>, hdr |-> 0 - 1])

parsear_transitorios(lines) ==
    LET inicio_transitorios == InicioTransitorios(lines)
    IN  IF inicio_transitorios = 0 - 1 THEN <<>>
        ELSE TransitorioLoop(lines, inicio_transitorios + 1,
                 [out |-> <<>>, has |-> FALSE, cur |-> <<>>, text |-> <<>>, hdr |-> 0 - 1])

----------------------------------------------------------------------------
(* extraer_decreto and extraer_titulo *)

(* Optional[str] *)
None == [some |-> FALSE, val |-> <<>>]
Some(v) == [some |-> TRUE, val |-> v]

(* "if len(decreto_lines) > 10: break" *)
DecretoCap == 10

(* "for linea in lineas[:10]" *)
TituloScan == 10

(* "len(linea) > 10" *)
TituloMinLen == 10

(* "Titulo no identificado" *)
TituloNoIdentificado == <<"Titulo", " ", "no", " ", "identificado">>

RECURSIVE DecretoLoop(_, _, _)
DecretoLoop(lines, i, decreto_lines) ==
    IF i > Len(lines) THEN decreto_lines
    ELSE
        LET linea == Strip(lines[i])
        IN  IF linea = <<>> THEN DecretoLoop(lines, i + 1, decreto_lines)
            ELSE IF MatchDecretoStop(linea) THEN decreto_lines
            ELSE IF Len(decreto_lines) + 1 > DecretoCap THEN Append(decreto_lines, linea)
            ELSE DecretoLoop(lines, i + 1, Append(decreto_lines, linea))

extraer_decreto(lines) ==
    LET decreto_lines == DecretoLoop(lines, 1, <<>>)
    IN  IF decreto_lines # <<>> THEN Some(Join(<<" ">>, decreto_lines)) ELSE None

extraer_titulo(lines) ==
    LET kw == {i \in 1..Len(lines) : MatchTitleKw(Strip(lines[i]))}
        up == {i \in 1..Len(lines) :
                  /\ i <= TituloScan
                  /\ StrLen(Strip(lines[i])) > TituloMinLen
                  /\ IsUpper(Strip(lines[i]))}
    IN  IF kw # {}
        THEN limpiar_texto(StripTitlePrefix(
                 Strip(lines[CHOOSE i \in kw : \A k \in kw : i <= k])))
        ELSE IF up # {}
        THEN limpiar_texto(Strip(lines[CHOOSE i \in up : \A k \in up : i <= k]))
        ELSE TituloNoIdentificado

----------------------------------------------------------------------------
(* LeyStructure and procesar_archivo *)

(* Optional[int] = None *)
NoneInt == [some |-> FALSE, val |-> 0]

(* LeyStructure(decreto=..., titulo=..., capitulos=..., transitorios=...):  *)
(* ano_publicacion is left at its default None, which pydantic does not     *)
(* pass through validate_year                                               *)
LeyStructure(d, t, c, tr) ==
    [decreto |-> IF d.some THEN Some(Strip(d.val)) ELSE d,
     ano_publicacion |-> NoneInt,
     titulo |-> Strip(t),
     capitulos |-> c,
     transitorios |-> tr]

(* an exception escaped parsear_capitulos *)
Escaped(caps) ==
    \E i \in 1..Len(caps) : \E j \in 1..Len(caps[i].articulos) :
        caps[i].articulos[j].articulo = ValueError

NoLey == [decreto |-> None, ano_publicacion |-> NoneInt, titulo |-> <<>>,
          capitulos |-> <<>>, transitorios |-> <<>>]

----------------------------------------------------------------------------
(* Input documents *)

MaxCoreLines == 3
MaxVarLines == 3
MaxTitleLines == 2
MaxBlocks == 4

(* sequences over V of length 1..n: ''.split('\n') is [''], one empty line *)
SeqsUpTo(V, n) == UNION {[1..k -> V] : k \in 1..n}

(* "CAPITULO I", "Articulo 1. foo", "Articulo 2.", "I. bar", "II.",         *)
(* "foo bar", "TRANSITORIOS", "Primero. foo", "de foo"                      *)
CoreVocab ==
    {<<"d", "e", " ", "foo">>,
     <<"C", "APITULO", " ", "I">>,
     <<"Articulo", " ", "1", ".", " ", "foo">>,
     <<"Articulo", " ", "2", ".">>,
     <<"I", ".", " ", "bar">>,
     <<"I", "I", ".">>,
     <<"foo", " ", "bar">>,
     <<"TRANSITORIOS">>,
     <<"Primero", ".", " ", "foo">>}

(* header and marker variants, stray whitespace and dashes *)
VarVocab ==
    {<<>>,
     <<" ", "Articulo", " ", "1", "2", "ORD", ".", "EN_DASH", " ", "foo", " ", " ",
       "bar", " ">>,
     <<"Articulo", " ", "Unico", ".", " ", "bar">>,
     <<"Articulo", "TAB", "UNICO">>,
     <<"a", ")", ".", " ", "foo">>,
     <<"1", ")", ".", "EM_DASH", "bar">>,
     <<"I", "V", ".", " ", "foo", "EN_DASH", "bar">>,
     <<"foo", " ", "bar">>,
     <<"Titulo", " ", "d", "e", " ", "foo">>,
     <<"D", ".", " ", "foo">>}

(* "LEY DE INGRESOS DEL ESTADO", "Ley foo", "LEY", "DECRETO FOO BAR",       *)
(* "FOO 1", "foo bar foo bar", "Articulo 1. foo"                            *)
TitleVocab ==
    {<<"L", "EY", " ", "D", "E", " ", "I", "NGRESOS", " ", "D", "E", "L", " ", "ESTADO">>,
     <<"L", "ey", " ", "foo">>,
     <<"L", "EY">>,
     <<"D", "ECRETO", " ", "FOO", " ", "BAR">>,
     <<"FOO", " ", "1">>,
     <<"foo", " ", "bar", " ", "foo", " ", "bar">>,
     <<"Articulo", " ", "1", ".", " ", "foo">>}

(* groups of lines: "CAPITULO I"; a chapter header and an article; an       *)
(* article; an article with text and two fracciones; an article header      *)
(* without text followed by a fraccion; an article with a fraccion header   *)
(* without text before a fraccion; "TRANSITORIOS"; a transitorios section   *)
(* with two items; a line of plain text                                     *)
Blocks ==
    LET K == <<"C", "APITULO", " ", "I">>
        A == <<"Articulo", " ", "1", ".", " ", "foo">>
        E == <<"Articulo", " ", "2", ".">>
        F == <<"I", ".", " ", "bar">>
        G == <<"I", "I", ".">>
        P == <<"foo", " ", "bar">>
        T == <<"TRANSITORIOS">>
        O == <<"Primero", ".", " ", "foo">>
    IN  {<<K>>, <<K, A>>, <<A>>, <<A, F, F>>, <<E, F>>, <<A, G, F>>, <<T>>, <<T, O, O>>,
         <<P>>}

RECURSIVE Flatten(_)
Flatten(bs) == IF bs = <<>> THEN <<>> ELSE Head(bs) \o Flatten(Tail(bs))

(* k filler lines "foo" *)
Pad(k) == [i \in 1..k |-> <<"foo">>]

Docs ==
    SeqsUpTo(CoreVocab, MaxCoreLines)
    \cup SeqsUpTo(VarVocab, MaxVarLines)
    \cup {Pad(k) \o d : k \in {0, TituloScan - 1, TituloScan},
                        d \in SeqsUpTo(TitleVocab, MaxTitleLines)}
    \cup {Flatten(bs) : bs \in SeqsUpTo(Blocks, MaxBlocks)}

----------------------------------------------------------------------------
(* procesar_archivo, from the decoded contenido on *)

(* the state of procesar_directorio_clean and of parse_law.main while they   *)
(* are not running                                                          *)
NoDir == [archivos |-> <<>>, i |-> 0, current_year |-> 0, salida |-> <<>>,
          errores |-> <<>>]
(* no direct call of a segmenter is in progress *)
NoCall == [inicio |-> 0, fin |-> 0, ret |-> <<>>]
NoLlm == [text |-> <<>>, sections |-> <<>>, i |-> 0, sent |-> <<>>, ret |-> <<>>,
          decreto_data |-> <<>>, normative_chunks_data |-> <<>>,
          transitorio_data |-> <<>>, log |-> <<>>, final_doc |-> <<>>,
          status |-> 0 - 1, written |-> "no"]

Init ==
    /\ contenido \in Docs
    /\ pc = "leido"
    /\ decreto = None
    /\ titulo = <<>>
    /\ capitulos = <<>>
    /\ transitorios = <<>>
    /\ ley = NoLey
    /\ dir = NoDir
    /\ llm = NoLlm
    /\ call = NoCall

(* decreto = self.extraer_decreto(contenido) *)
ExtraerDecreto ==
    /\ pc = "leido"
    /\ decreto' = extraer_decreto(contenido)
    /\ pc' = "decreto"
    /\ UNCHANGED <<contenido, titulo, capitulos, transitorios, ley, dir, llm, call>>

(* titulo = self.extraer_titulo(contenido) *)
ExtraerTitulo ==
    /\ pc = "decreto"
    /\ titulo' = extraer_titulo(contenido)
    /\ pc' = "titulo"
    /\ UNCHANGED <<contenido, decreto, capitulos, transitorios, ley, dir, llm, call>>

(* capitulos = self.parsear_capitulos(contenido) *)
ParsearCapitulos ==
    /\ pc = "titulo"
    /\ capitulos' = parsear_capitulos(contenido)
    /\ pc' = IF Escaped(capitulos') THEN "raised" ELSE "capitulos"
    /\ UNCHANGED <<contenido, decreto, titulo, transitorios, ley, dir, llm, call>>

(* transitorios = self.parsear_transitorios(contenido) *)
ParsearTransitorios ==
    /\ pc = "capitulos"
    /\ transitorios' = parsear_transitorios(contenido)
    /\ pc' = "transitorios"
    /\ UNCHANGED <<contenido, decreto, titulo, capitulos, ley, dir, llm, call>>

(* return LeyStructure(...) *)
CrearEstructura ==
    /\ pc = "transitorios"
    /\ ley' = LeyStructure(decreto, titulo, capitulos, transitorios)
    /\ pc' = "returned"
    /\ UNCHANGED <<contenido, decreto, titulo, capitulos, transitorios, dir, llm, call>>

Next ==
    \/ ExtraerDecreto
    \/ ExtraerTitulo
    \/ ParsearCapitulos
    \/ ParsearTransitorios
    \/ CrearEstructura

Spec == Init /\ [][Next]_vars

----------------------------------------------------------------------------
(* Properties *)

PostCapitulos == pc \in {"capitulos", "transitorios", "returned"}
PostTransitorios == pc \in {"transitorios", "returned"}

(* the lines of a chapter: its header and the range handed on *)
ChapterRange(c) == (IF c.pos < 0 THEN 0 ELSE c.pos)..(c.fin - 1)

(* the lines that gave text to an article or to one of its fracciones *)
ArticleLines(a) == a.src \cup UNION {a.fracciones[k].src : k \in 1..Len(a.fracciones)}

(* C1: sibling units never share source lines: the line ranges of two       *)
(* distinct chapters returned by parsear_capitulos do not intersect, within *)
(* one chapter no line gives text to two different articles, and within one *)
(* article no line gives text both to the article's own text and to a       *)
(* fraccion, nor to two different fracciones.                               *)
C1_NoOverlap ==
    /\ \A i, j \in 1..Len(capitulos) :
          i # j => ChapterRange(capitulos[i]) \cap ChapterRange(capitulos[j]) = {}
    /\ \A i \in 1..Len(capitulos) :
          LET arts == capitulos[i].articulos
          IN  /\ \A a, b \in 1..Len(arts) :
                    a # b => ArticleLines(arts[a]) \cap ArticleLines(arts[b]) = {}
              /\ \A a \in 1..Len(arts) :
                    LET fs == arts[a].fracciones
                    IN  /\ \A f \in 1..Len(fs) : arts[a].src \cap fs[f].src = {}
                        /\ \A f, g \in 1..Len(fs) :
                              f # g => fs[f].src \cap fs[g].src = {}

(* two chapters, one of them with two articles, and an article with text    *)
(* of its own and two fracciones                                            *)
C1_Witness ==
    /\ PostCapitulos
    /\ Len(capitulos) >= 2
    /\ \E i \in 1..Len(capitulos) :
          /\ Len(capitulos[i].articulos) >= 2
          /\ \E a \in 1..Len(capitulos[i].articulos) :
                /\ capitulos[i].articulos[a].src # {}
                /\ Len(capitulos[i].articulos[a].fracciones) >= 2

(* C2: no line gives text both to a permanent article and to a transitory   *)
(* article: every line at or after the transitorios header that             *)
(* parsear_transitorios starts from is absent from the chapters tree.       *)
C2_PermanentTransitoryDisjoint ==
    PostTransitorios =>
        LET ini == InicioTransitorios(contenido)
        IN  \A i \in 1..Len(capitulos) :
                /\ ini >= 0 => capitulos[i].pos < ini
                /\ \A a \in 1..Len(capitulos[i].articulos) :
                      /\ ini >= 0 =>
                            \A l \in ArticleLines(capitulos[i].articulos[a]) : l < ini
                      /\ \A t \in 1..Len(transitorios) :
                            ArticleLines(capitulos[i].articulos[a])
                                \cap transitorios[t].src = {}

(* C3: output order equals input order: header lines are strictly           *)
(* increasing along the chapters, along the articles of a chapter, along    *)
(* the fracciones of an article and along the transitory articles.          *)
C3_OrderPreserved ==
    /\ \A i \in 1..(Len(capitulos) - 1) : capitulos[i].pos < capitulos[i + 1].pos
    /\ \A i \in 1..Len(capitulos) :
          LET arts == capitulos[i].articulos
          IN  /\ \A a \in 1..(Len(arts) - 1) : arts[a].hdr < arts[a + 1].hdr
              /\ \A a \in 1..Len(arts) :
                    \A f \in 1..(Len(arts[a].fracciones) - 1) :
                        arts[a].fracciones[f].hdr < arts[a].fracciones[f + 1].hdr
    /\ \A t \in 1..(Len(transitorios) - 1) :
          transitorios[t].hdr < transitorios[t + 1].hdr

(* two chapters, a chapter with two articles, an article with two           *)
(* fracciones and two transitory articles                                   *)
C3_Witness ==
    /\ PostTransitorios
    /\ Len(capitulos) >= 2
    /\ Len(transitorios) >= 2
    /\ \E i \in 1..Len(capitulos) :
          /\ Len(capitulos[i].articulos) >= 2
          /\ \E a \in 1..Len(capitulos[i].articulos) :
                Len(capitulos[i].articulos[a].fracciones) >= 2

----------------------------------------------------------------------------
(* What a document says, read off its lines (0-based line numbers) *)

LineNumbers(lines) == 0..(Len(lines) - 1)
IsBlank(lines, l) == Strip(lines[l + 1]) = <<>>
IsArticleHeader(lines, l) == MatchArticulo(Strip(lines[l + 1])).ok
IsChapterHeader(lines, l) == MatchCapitulo(Strip(lines[l + 1]))
IsTransitoriosHeader(lines, l) == MatchTransitorios(Strip(lines[l + 1]))

ArticleHeaders(lines) == {l \in LineNumbers(lines) : IsArticleHeader(lines, l)}
ChapterHeaders(lines) == {l \in LineNumbers(lines) : IsChapterHeader(lines, l)}

Min(S) == CHOOSE m \in S : \A k \in S : m <= k

(* a finite set of integers as an increasing sequence *)
RECURSIVE Sorted(_)
Sorted(S) == IF S = {} THEN <<>> ELSE <<Min(S)>> \o Sorted(S \ {Min(S)})

(* the article header at line l has text of its own: text on the header     *)
(* line, or a following non-blank line that is not a header and comes       *)
(* before any other non-blank line, inside the range ending at fin          *)
HeaderHasText(lines, l, fin) ==
    \/ MatchArticulo(Strip(lines[l + 1])).g2 # <<>>
    \/ \E j \in (l + 1)..(fin - 1) :
          /\ ~IsBlank(lines, j)
          /\ ~IsArticleHeader(lines, j)
          /\ ~IsChapterHeader(lines, j)
          /\ \A k \in (l + 1)..(j - 1) : IsBlank(lines, k)

(* the pieces of text accumulated for the article header at line l: the     *)
(* text on the header line and every non-blank line up to the next article  *)
(* or chapter header, or the end fin of the range                           *)
Accumulated(lines, l, fin) ==
    LET stops == {j \in (l + 1)..(fin - 1) :
                     IsArticleHeader(lines, j) \/ IsChapterHeader(lines, j)}
        stop == IF stops # {} THEN Min(stops) ELSE fin
        body == Sorted({j \in (l + 1)..(stop - 1) : ~IsBlank(lines, j)})
        g2 == MatchArticulo(Strip(lines[l + 1])).g2
    IN  (IF g2 # <<>> THEN <<Piece(l, g2)>> ELSE <<>>)
        \o [k \in 1..Len(body) |-> Piece(body[k], Strip(lines[body[k] + 1]))]

(* the normalized text of pieces *)
Normalized(pieces) == limpiar_texto(Join(<<" ">>, Texts(pieces)))

(* where the range of the chapter whose header is at line pos ends *)
ExpectedFin(lines, pos) ==
    LET later == {p \in ChapterHeaders(lines) : p > pos}
        trans == {j \in pos..(Len(lines) - 1) : IsTransitoriosHeader(lines, j)}
    IN  IF later # {} THEN Min(later)
        ELSE IF trans # {} THEN Min(trans)
        ELSE Len(lines)

HeaderLinesOf(units) == [i \in 1..Len(units) |-> units[i].hdr]

----------------------------------------------------------------------------

C6_ChapterRanges ==
    /\ LET ps == CapituloPositions(contenido)
       IN  \A i \in 1..Len(ps) : FinPos(contenido, ps, i) = ExpectedFin(contenido, ps[i])
    /\ \A i \in 1..Len(capitulos) :
          capitulos[i].pos >= 0 =>
              /\ capitulos[i].ini = capitulos[i].pos + 1
              /\ capitulos[i].fin = ExpectedFin(contenido, capitulos[i].pos)

(* a chapter that is not the last with a transitorios line inside its       *)
(* range, and a last chapter cut at a transitorios line                     *)
C6_Witness ==
    /\ PostCapitulos
    /\ Len(capitulos) >= 2
    /\ \E j \in capitulos[1].ini..(capitulos[1].fin - 1) :
          IsTransitoriosHeader(contenido, j)
    /\ capitulos[1].fin = capitulos[2].pos
    /\ capitulos[Len(capitulos)].fin < Len(contenido)
    /\ IsTransitoriosHeader(contenido, capitulos[Len(capitulos)].fin)

(* C7: every chapter returned by parsear_capitulos has at least one         *)
(* article; the chapter headers whose range gives no article are left out,  *)
(* and every other chapter keeps its label and the articles of its range.   *)
C7_NoEmptyChapters ==
    /\ \A i \in 1..Len(capitulos) : capitulos[i].articulos # <<>>
    /\ (PostCapitulos /\ ChapterHeaders(contenido) # {}) =>
          LET conArticulos ==
                  {p \in ChapterHeaders(contenido) :
                      parsear_articulos(contenido, p + 1, ExpectedFin(contenido, p)) # <<>>}
          IN  /\ [i \in 1..Len(capitulos) |-> capitulos[i].pos] = Sorted(conArticulos)
              /\ \A i \in 1..Len(capitulos) :
                    /\ capitulos[i].capitulo = Strip(contenido[capitulos[i].pos + 1])
                    /\ capitulos[i].articulos =
                           parsear_articulos(contenido, capitulos[i].pos + 1,
                                             ExpectedFin(contenido, capitulos[i].pos))

(* a chapter header without articles between two chapters that are kept *)
C7_Witness ==
    /\ PostCapitulos
    /\ Len(capitulos) >= 2
    /\ \E p \in ChapterHeaders(contenido) :
          /\ capitulos[1].pos < p
          /\ p < capitulos[2].pos

----------------------------------------------------------------------------

PostTitulo == pc \in {"titulo", "capitulos", "transitorios", "returned"}

(* the lines (1-based) that start with a title keyword, and the lines among *)
(* the first TituloScan that are upper case and longer than TituloMinLen    *)
KwLines(lines) == {i \in 1..Len(lines) : MatchTitleKw(Strip(lines[i]))}
UpLines(lines) ==
    {i \in 1..Len(lines) :
        /\ i <= TituloScan
        /\ StrLen(Strip(lines[i])) > TituloMinLen
        /\ IsUpper(Strip(lines[i]))}

(* "LEY " and "LEY DE INGRESOS DEL ", normalized and in upper case *)
FillerLey == <<"L", "EY", " ">>
FillerLeyDeIngresosDel ==
    <<"L", "EY", " ", "D", "E", " ", "I", "NGRESOS", " ", "D", "E", "L", " ">>

StartsWithIC(s, w) == Len(s) >= Len(w) /\ UpperSeq(SubSeq(s, 1, Len(w))) = w

(* t is the normalized line s without its filler prefix: the long filler    *)
(* when s starts with it, else the short one when s starts with it, else s  *)
WithoutFiller(s, t) ==
    IF StartsWithIC(s, FillerLeyDeIngresosDel)
    THEN s = SubSeq(s, 1, Len(FillerLeyDeIngresosDel)) \o t
    ELSE IF StartsWithIC(s, FillerLey)
    THEN s = SubSeq(s, 1, Len(FillerLey)) \o t
    ELSE s = t

(* C8: extraer_titulo returns a non-empty string: the first line starting   *)
(* with a law/code/constitution/regulation keyword with the filler prefix   *)
(* stripped; else the first upper-case line longer than 10 characters among *)
(* the first 10 lines; else the sentinel "Titulo no identificado".          *)
C8_TituloNonEmpty ==
    PostTitulo =>
        LET kw == KwLines(contenido)
            up == UpLines(contenido)
        IN  /\ titulo # <<>>
            /\ StrLen(titulo) > 0
            /\ kw # {} =>
                  WithoutFiller(limpiar_texto(contenido[Min(kw)]), titulo)
            /\ (kw = {} /\ up # {}) => titulo = limpiar_texto(contenido[Min(up)])
            /\ (kw = {} /\ up = {}) => titulo = TituloNoIdentificado

(* an upper-case line longer than 10 characters comes first, and the title  *)
(* is the later keyword line without its filler prefix                      *)
C8_Witness ==
    /\ PostTitulo
    /\ KwLines(contenido) # {}
    /\ UpLines(contenido) # {}
    /\ Min(UpLines(contenido)) < Min(KwLines(contenido))
    /\ titulo # limpiar_texto(contenido[Min(KwLines(contenido))])

(* the value of a string of decimal digits, read from the left *)
RECURSIVE Decimal(_, _)
Decimal(ds, acc) ==
    IF ds = <<>> THEN acc ELSE Decimal(Tail(ds), 10 * acc + DigitVal(Head(ds)))

(* the number token of the article header at line l *)
NumberToken(lines, l) == MatchArticulo(Strip(lines[l + 1])).g1

(* C9: the stored article number is the integer value of the digit token    *)
(* without the ordinal mark; the token UNICO / Unico gives 1; number        *)
(* parsing never raises and never stops the parse of the following lines:   *)
(* every article header with text in a chapter's range gives its article.   *)
C9_ArticuloNumber ==
    /\ pc # "raised"
    /\ \A i \in 1..Len(capitulos) :
          /\ HeaderLinesOf(capitulos[i].articulos) =
                 Sorted({l \in ArticleHeaders(contenido) :
                            /\ l >= capitulos[i].ini
                            /\ l < capitulos[i].fin
                            /\ HeaderHasText(contenido, l, capitulos[i].fin)})
          /\ \A n \in 1..Len(capitulos[i].articulos) :
                LET a == capitulos[i].articulos[n]
                    tok == NumberToken(contenido, a.hdr)
                IN  /\ a.articulo # ValueError
                    /\ IF tok[1] \in Digits
                       THEN a.articulo =
                                Decimal(SelectSeq(tok, LAMBDA c : c \in Digits), 0)
                       ELSE tok \in {<<"UNICO">>, <<"Unico">>} /\ a.articulo = 1

(* an article numbered 1 from the token Unico, followed by an article whose *)
(* token carries the ordinal mark and whose number has two digits           *)
C9_Witness ==
    /\ PostCapitulos
    /\ \E i \in 1..Len(capitulos) : \E n, m \in 1..Len(capitulos[i].articulos) :
          LET a == capitulos[i].articulos[n]
              b == capitulos[i].articulos[m]
          IN  /\ n < m
              /\ NumberToken(contenido, a.hdr) = <<"Unico">>
              /\ a.articulo = 1
              /\ "ORD" \in {NumberToken(contenido, b.hdr)[k] :
                               k \in 1..Len(NumberToken(contenido, b.hdr))}
              /\ b.articulo >= 10

NoTitlePattern(lines) == KwLines(lines) = {} /\ UpLines(lines) = {}
NoTransitoriosHeader(lines) ==
    \A l \in LineNumbers(lines) : ~IsTransitoriosHeader(lines, l)

(* C10 as stated: procesar_archivo completes and returns a Document without *)
(* raising: no chapter header gives a single implicit chapter, no           *)
(* transitorios header an empty transitory list, no title pattern the title *)
(* sentinel.                                                                *)
C10_Original ==
    /\ pc # "raised"
    /\ pc \in {"leido", "decreto", "titulo", "capitulos", "transitorios", "returned"}
    /\ pc = "returned" =>
          /\ ChapterHeaders(contenido) = {} =>
                /\ Len(ley.capitulos) = 1
                /\ ley.capitulos[1].capitulo = CapituloUnico
          /\ NoTransitoriosHeader(contenido) => ley.transitorios = <<>>
          /\ NoTitlePattern(contenido) => ley.titulo = TituloNoIdentificado

(* C10 amended: procesar_archivo completes and returns a Document without   *)
(* raising: no chapter header gives a single implicit chapter when some     *)
(* article header has text and an empty chapter list otherwise, no          *)
(* transitorios header an empty transitory list, no title pattern the title *)
(* sentinel.                                                                *)
C10_AlwaysReturns ==
    /\ pc # "raised"
    /\ pc \in {"leido", "decreto", "titulo", "capitulos", "transitorios", "returned"}
    /\ pc = "returned" =>
          /\ ChapterHeaders(contenido) = {} =>
                IF \E l \in ArticleHeaders(contenido) :
                       HeaderHasText(contenido, l, Len(contenido))
                THEN /\ Len(ley.capitulos) = 1
                     /\ ley.capitulos[1].capitulo = CapituloUnico
                ELSE ley.capitulos = <<>>
          /\ NoTransitoriosHeader(contenido) => ley.transitorios = <<>>
          /\ NoTitlePattern(contenido) => ley.titulo = TituloNoIdentificado
          /\ ley.capitulos = capitulos
          /\ ley.transitorios = transitorios

(* a document without chapter header, article, transitorios header or title *)
(* pattern: the Document returned has the sentinel title and empty lists    *)
C10_Witness ==
    /\ pc = "returned"
    /\ ChapterHeaders(contenido) = {}
    /\ NoTransitoriosHeader(contenido)
    /\ NoTitlePattern(contenido)
    /\ \E l \in LineNumbers(contenido) : ~IsBlank(contenido, l)
    /\ ley.titulo = TituloNoIdentificado
    /\ ley.capitulos = <<>>
    /\ ley.transitorios = <<>>

----------------------------------------------------------------------------

(* input of zero characters: ''.split('\n') is one empty line *)
EmptyInput == <<<<>>>>

(* C11: when the input is empty, procesar_archivo surfaces a fatal input    *)
(* error to the caller and returns no Document.                             *)
C11_EmptyInputRejected ==
    contenido = EmptyInput => (pc # "returned" /\ ley = NoLey)

(* the first token of a line as written: the atoms before the first         *)
(* whitespace, period, parenthesis or dash                                  *)
LeadingToken(s) ==
    LET seps == {i \in 1..Len(s) : s[i] \in WS \cup Dashes \cup {".", ")"}}
    IN  SubSeq(s, 1, IF seps = {} THEN Len(s) ELSE Min(seps) - 1)

(* an ordinal word, an arabic numeral with an optional ordinal mark, or a   *)
(* roman numeral                                                            *)
IsItemToken(tok) ==
    /\ tok # <<>>
    /\ \/ UpperSeq(tok) \in OrdinalWords
       \/ \A i \in 1..Len(tok) : tok[i] \in Digits \/ (i = Len(tok) /\ i > 1 /\ tok[i] = "ORD")
       \/ \A i \in 1..Len(tok) : tok[i] \in Roman

(* C12: every transitory article starts at a transitory item header line    *)
(* and is keyed by that line's token exactly as written; a line that        *)
(* continues the current item's text is appended to that item (its text is  *)
(* in the item's body) and never starts a new item.                         *)
C12_TransitoryItems ==
    PostTransitorios =>
        \A k \in 1..Len(transitorios) :
            LET t == transitorios[k]
                tok == LeadingToken(Strip(contenido[t.hdr + 1]))
            IN  /\ IsItemToken(tok)
                /\ t.articulo = tok

(* the lines after the first transitorios header are all blank *)
NoTextAfterHeader(lines) ==
    /\ ~NoTransitoriosHeader(lines)
    /\ \A l \in LineNumbers(lines) :
          l > Min({h \in LineNumbers(lines) : IsTransitoriosHeader(lines, h)})
              => IsBlank(lines, l)

(* C13: parsear_transitorios returns an empty list, without any error, when *)
(* no line of the document matches the transitory header, and also when a   *)
(* transitory header exists but no text follows it.                         *)
C13_EmptyTransitorios ==
    PostTransitorios =>
        /\ NoTransitoriosHeader(contenido) => transitorios = <<>>
        /\ NoTextAfterHeader(contenido) => transitorios = <<>>

(* a transitory item line in a document without transitorios header: the    *)
(* list is empty                                                            *)
C13_Witness ==
    /\ PostTransitorios
    /\ NoTransitoriosHeader(contenido)
    /\ \E l \in LineNumbers(contenido) :
          UpperSeq(LeadingToken(Strip(contenido[l + 1]))) \in OrdinalWords
    /\ transitorios = <<>>

(* C14: a sub-item header line inside a transitory article becomes a        *)
(* sub-item of that article, with the body truncated before it: after a     *)
(* transitory article keyed by an ordinal word it is not the header of a    *)
(* separate transitory article, and it gives no text to a transitory body.  *)
C14_TransitorySubItems ==
    PostTransitorios =>
        \A k \in 1..Len(transitorios) :
            LET t == transitorios[k]
            IN  /\ (k > 1 /\ UpperSeq(transitorios[k - 1].articulo) \in OrdinalWords)
                      => ~MatchFraccion(Strip(contenido[t.hdr + 1])).ok
                /\ \A l \in t.src \ {t.hdr} :
                      ~MatchFraccion(Strip(contenido[l + 1])).ok

----------------------------------------------------------------------------

PostDecreto == pc \in {"decreto", "titulo", "capitulos", "transitorios", "returned"}

(* the leading non-blank lines, stripped, that precede the first line       *)
(* starting with a structural keyword                                       *)
Qualifying(lines) ==
    LET stops == {i \in 1..Len(lines) : MatchDecretoStop(Strip(lines[i]))}
        end == IF stops = {} THEN Len(lines) ELSE Min(stops) - 1
        idx == Sorted({i \in 1..end : Strip(lines[i]) # <<>>})
    IN  [n \in 1..Len(idx) |-> Strip(lines[idx[n]])]

(* C15: the preamble returned by extraer_decreto consists only of the       *)
(* leading non-blank lines that precede the first line starting with a      *)
(* structural keyword, contains at most 10 lines, and is absent when no     *)
(* qualifying line exists.                                                  *)
C15_PreambleCap ==
    PostDecreto =>
        LET q == Qualifying(contenido)
        IN  IF q = <<>> THEN decreto = None
            ELSE /\ decreto.some
                 /\ \E k \in 1..Len(q) :
                       /\ k <= 10
                       /\ decreto.val = Join(<<" ">>, SubSeq(q, 1, k))

(* no run of two or more whitespace characters, no leading or trailing      *)
(* whitespace, no en/em dash                                                *)
IsNormalized(s) ==
    /\ \A i \in 1..Len(s) : s[i] \notin {"EN_DASH", "EM_DASH"}
    /\ \A i \in 1..(Len(s) - 1) : ~(s[i] \in WS /\ s[i + 1] \in WS)
    /\ s # <<>> => (s[1] \notin WS /\ s[Len(s)] \notin WS)

(* C16: every body or label text stored in the Document (preamble, title,   *)
(* chapter label, article body, sub-item body, transitory body) is in       *)
(* normalized form.                                                         *)
C16_StoredTextNormalized ==
    pc = "returned" =>
        /\ ley.decreto.some => IsNormalized(ley.decreto.val)
        /\ IsNormalized(ley.titulo)
        /\ \A i \in 1..Len(ley.capitulos) :
              /\ IsNormalized(ley.capitulos[i].capitulo)
              /\ \A j \in 1..Len(ley.capitulos[i].articulos) :
                    LET a == ley.capitulos[i].articulos[j]
                    IN  /\ IsNormalized(a.texto)
                        /\ \A k \in 1..Len(a.fracciones) :
                              IsNormalized(a.fracciones[k].texto)
        /\ \A i \in 1..Len(ley.transitorios) : IsNormalized(ley.transitorios[i].texto)

----------------------------------------------------------------------------
(* Reading a file: open(archivo_path, 'r', encoding=...).read()             *)
(*                                                                          *)
(* The bytes of a file are lines of atoms: ASCII atoms as above, and the    *)
(* single bytes xC3, xE9 (UTF-8 lead bytes of a 2- and a 3-byte sequence),  *)
(* xA9 and x81 (UTF-8 continuation bytes).                                  *)

HighBytes == {"xC3", "xE9", "xA9", "x81"}
Continuation == {"xA9", "x81"}

DecodeError == [ok |-> FALSE, val |-> <<>>]

(* codec utf-8 on one line *)
RECURSIVE Utf8Line(_)
Utf8Line(b) ==
    IF b = <<>> THEN [ok |-> TRUE, val |-> <<>>]
    ELSE
        LET n == IF Head(b) \notin HighBytes THEN 1
                 ELSE IF Head(b) = "xC3" /\ Len(b) >= 2 /\ b[2] \in Continuation THEN 2
                 ELSE IF /\ Head(b) = "xE9" /\ Len(b) >= 3
                         /\ b[2] \in Continuation /\ b[3] \in Continuation THEN 3
                 ELSE 0
            ch == IF n = 1 THEN Head(b)
                  ELSE IF n = 2 THEN (IF b[2] = "xA9" THEN "e_acute" ELSE "A_acute")
                  ELSE "cjk"
            r == IF n = 0 THEN DecodeError ELSE Utf8Line(SubSeq(b, n + 1, Len(b)))
        IN  IF r.ok THEN [ok |-> TRUE, val |-> <<ch>> \o r.val] ELSE DecodeError

(* codec latin-1 on one line: every byte is a character *)
Latin1Line(b) ==
    [ok |-> TRUE,
     val |-> [k \in 1..Len(b) |->
                 CASE b[k] = "xC3" -> "A_tilde"
                   [] b[k] = "xE9" -> "e_acute"
                   [] b[k] = "xA9" -> "copyright"
                   [] b[k] = "x81" -> "u0081"
                   [] OTHER -> b[k]]]

(* codec cp1252 on one line: byte 0x81 is undefined *)
Cp1252Line(b) ==
    IF \E k \in 1..Len(b) : b[k] = "x81" THEN DecodeError ELSE Latin1Line(b)

(* a whole file under one codec *)
Utf8(bytes) ==
    IF \A k \in 1..Len(bytes) : Utf8Line(bytes[k]).ok
    THEN [ok |-> TRUE, val |-> [k \in 1..Len(bytes) |-> Utf8Line(bytes[k]).val]]
    ELSE DecodeError
Latin1(bytes) == [ok |-> TRUE, val |-> [k \in 1..Len(bytes) |-> Latin1Line(bytes[k]).val]]
Cp1252(bytes) ==
    IF \A k \in 1..Len(bytes) : Cp1252Line(bytes[k]).ok
    THEN [ok |-> TRUE, val |-> [k \in 1..Len(bytes) |-> Cp1252Line(bytes[k]).val]]
    ELSE DecodeError

(* procesar_archivo, "Leer contenido del archivo": utf-8, on                *)
(* UnicodeDecodeError latin-1, on any exception cp1252                      *)
LeerContenido(bytes) ==
    IF Utf8(bytes).ok THEN Utf8(bytes)
    ELSE IF Latin1(bytes).ok THEN Latin1(bytes)
    ELSE Cp1252(bytes)

----------------------------------------------------------------------------
(* deducir_ano_openai *)

(* characters that \w does not match *)
NonWord == WS \cup Dashes \cup {".", ")", "DEG", "copyright", "u0081"}

(* \b(19[0-9]{2}|20[0-2][0-9])\b matches at index i of the line *)
YearAt(line, i) ==
    /\ i + 3 <= Len(line)
    /\ \A k \in 0..3 : line[i + k] \in Digits
    /\ \/ line[i] = "1" /\ line[i + 1] = "9"
       \/ line[i] = "2" /\ line[i + 1] = "0" /\ line[i + 2] \in {"0", "1", "2"}
    /\ i = 1 \/ line[i - 1] \in NonWord
    /\ i + 3 = Len(line) \/ line[i + 4] \in NonWord

Max(S) == CHOOSE m \in S : \A k \in S : m >= k

(* a variant of deducir_ano_openai whose pattern is \b[0-9]{4}\b *)
deducir_ano_CuatroDigitos(lines, current_year) ==
    LET years == UNION {{IntOf(SubSeq(lines[l], i, i + 3)) :
                            i \in {j \in 1..Len(lines[l]) :
                                /\ j + 3 <= Len(lines[l])
                                /\ \A k \in 0..3 : lines[l][j + k] \in Digits
                                /\ j = 1 \/ lines[l][j - 1] \in NonWord
                                /\ j + 3 = Len(lines[l]) \/ lines[l][j + 4] \in NonWord}} :
                        l \in 1..Len(lines)}
        valid_years == {y \in years : y <= current_year}
    IN  IF valid_years # {} THEN [some |-> TRUE, val |-> Max(valid_years)] ELSE NoneInt

(* re.findall on the whole text, then the largest year not in the future *)
deducir_ano_openai(lines, current_year) ==
    LET years == UNION {{IntOf(SubSeq(lines[l], i, i + 3)) :
                            i \in {j \in 1..Len(lines[l]) : YearAt(lines[l], j)}} :
                        l \in 1..Len(lines)}
        valid_years == {y \in years : y <= current_year}
    IN  IF valid_years # {} THEN [some |-> TRUE, val |-> Max(valid_years)] ELSE NoneInt

----------------------------------------------------------------------------
(* procesar_directorio_clean *)

MaxArchivos == 2

(* the years the run can take place in *)
CurrentYears == {2026, 2031}

(* files of the directory temp/clean: a file that does not exist;           *)
(* "Articulo 1. foo 2024"; "foo 1850" and "a2024 20245";                    *)
(* "Articulo 1. foo 1999." and "2031 2030"; "foo <E9> 2020" (Latin-1);      *)
(* "foo <C3 A9> 2029" (UTF-8); "<81> foo"; the empty file                   *)
FileVocab ==
    {[existe |-> FALSE, bytes |-> <<>>],
     [existe |-> TRUE,
      bytes |-> <<<<"Articulo", " ", "1", ".", " ", "foo", " ", "2", "0", "2", "4">>>>],
     [existe |-> TRUE,
      bytes |-> <<<<"foo", " ", "1", "8", "5", "0">>,
                  <<"a", "2", "0", "2", "4", " ", "2", "0", "2", "4", "5">>>>],
     [existe |-> TRUE,
      bytes |-> <<<<"Articulo", " ", "1", ".", " ", "foo", " ", "1", "9", "9", "9", ".">>,
                  <<"2", "0", "3", "1", " ", "2", "0", "3", "0">>>>],
     [existe |-> TRUE, bytes |-> <<<<"foo", " ", "xE9", " ", "2", "0", "2", "0">>>>],
     [existe |-> TRUE, bytes |-> <<<<"foo", " ", "xC3", "xA9", " ", "2", "0", "2", "9">>>>],
     [existe |-> TRUE, bytes |-> <<<<"x81", " ", "foo">>>>],
     [existe |-> TRUE, bytes |-> <<<<>>>>]}

(* the listings of a directory: up to MaxArchivos files named 1, 2, ... in  *)
(* the order the file system gives them                                     *)
Listings ==
    UNION {{[k \in 1..n |-> [nombre |-> perm[k], existe |-> f[perm[k]].existe,
                             bytes |-> f[perm[k]].bytes]] :
               perm \in {q \in [1..n -> 1..n] : \A a, b \in 1..n : a # b => q[a] # q[b]},
               f \in [1..n -> FileVocab]} :
           n \in 1..MaxArchivos}

(* a variant of SortedArchivos that keeps the order of the listing *)
SortedArchivosSinOrden(fs) == fs

(* sorted(archivos) *)
RECURSIVE SortedArchivos(_)
SortedArchivos(fs) ==
    IF fs = <<>> THEN <<>>
    ELSE LET m == CHOOSE k \in 1..Len(fs) : \A j \in 1..Len(fs) : fs[k].nombre <= fs[j].nombre
         IN  <<fs[m]>> \o SortedArchivos([j \in 1..(Len(fs) - 1) |->
                                             IF j < m THEN fs[j] ELSE fs[j + 1]])

InitDir ==
    /\ contenido = <<>>
    /\ pc = "archivo"
    /\ decreto = None
    /\ titulo = <<>>
    /\ capitulos = <<>>
    /\ transitorios = <<>>
    /\ ley = NoLey
    /\ \E fs \in Listings, y \in CurrentYears :
          dir = [archivos |-> fs, i |-> 1, current_year |-> y,
                 salida |-> <<>>, errores |-> <<>>]
    /\ llm = NoLlm
    /\ call = NoCall

(* the file of the current iteration of "for archivo_path in sorted(archivos)" *)
Archivo == SortedArchivos(dir.archivos)[dir.i]

(* the locals of the iteration are dropped when the next one starts *)
SiguienteArchivo ==
    /\ contenido' = <<>>
    /\ decreto' = None
    /\ titulo' = <<>>
    /\ capitulos' = <<>>
    /\ transitorios' = <<>>
    /\ ley' = NoLey
    /\ pc' = "archivo"
    /\ llm' = llm
    /\ call' = call

(* "if not archivo_path.exists(): ... continue" *)
ArchivoNoEncontrado ==
    /\ pc = "archivo"
    /\ dir.i <= Len(dir.archivos)
    /\ ~Archivo.existe
    /\ dir' = [dir EXCEPT !.i = @ + 1,
                          !.errores = Append(@, [nombre |-> Archivo.nombre,
                                                 motivo |-> "no encontrado"])]
    /\ SiguienteArchivo

(* parser.procesar_archivo(...): the file is read *)
LeerArchivo ==
    /\ pc = "archivo"
    /\ dir.i <= Len(dir.archivos)
    /\ Archivo.existe
    /\ contenido' = LeerContenido(Archivo.bytes).val
    /\ pc' = IF LeerContenido(Archivo.bytes).ok THEN "leido" ELSE "error"
    /\ UNCHANGED <<decreto, titulo, capitulos, transitorios, ley, dir, llm, call>>

(* "Intentar deducir ano si no esta presente": the file is opened again     *)
(* with encoding='utf-8'                                                    *)
DeducirAno ==
    /\ pc = "returned"
    /\ dir.i >= 1
    /\ ley' = IF ~ley.ano_publicacion.some /\ Utf8(Archivo.bytes).ok
              THEN [ley EXCEPT !.ano_publicacion =
                       deducir_ano_openai(Utf8(Archivo.bytes).val, dir.current_year)]
              ELSE ley
    /\ pc' = IF ~ley.ano_publicacion.some /\ ~Utf8(Archivo.bytes).ok
             THEN "error" ELSE "deducido"
    /\ UNCHANGED <<contenido, decreto, titulo, capitulos, transitorios, dir, llm, call>>

(* "with open(json_path, 'w') as f: json.dump(...)": the file is written,   *)
(* or open raises and the except clause takes over                          *)
EscribirJson ==
    /\ pc = "deducido"
    /\ \E escrito \in BOOLEAN :
          IF escrito
          THEN /\ dir' = [dir EXCEPT !.i = @ + 1,
                                     !.salida = Append(@, [nombre |-> Archivo.nombre,
                                                           ley |-> ley])]
               /\ SiguienteArchivo
          ELSE /\ pc' = "error"
               /\ UNCHANGED <<contenido, decreto, titulo, capitulos, transitorios, ley,
                              dir, llm, call>>

(* "except Exception as e: print(...); continue" *)
ReportarError ==
    /\ pc \in {"error", "raised"}
    /\ dir.i >= 1
    /\ dir' = [dir EXCEPT !.i = @ + 1,
                          !.errores = Append(@, [nombre |-> Archivo.nombre,
                                                 motivo |-> "excepcion"])]
    /\ SiguienteArchivo

(* the loop over sorted(archivos) is over *)
FinDirectorio ==
    /\ pc = "archivo"
    /\ dir.i > Len(dir.archivos)
    /\ pc' = "fin"
    /\ UNCHANGED <<contenido, decreto, titulo, capitulos, transitorios, ley, dir, llm, call>>

NextDir ==
    \/ ArchivoNoEncontrado
    \/ LeerArchivo
    \/ ExtraerDecreto
    \/ ExtraerTitulo
    \/ ParsearCapitulos
    \/ ParsearTransitorios
    \/ CrearEstructura
    \/ DeducirAno
    \/ EscribirJson
    \/ ReportarError
    \/ FinDirectorio

SpecDir == InitDir /\ [][NextDir]_vars

----------------------------------------------------------------------------

(* the maximal runs of word characters of a line *)
Tokens(line) ==
    {SubSeq(line, i, j) : <<i, j>> \in
        {p \in (1..Len(line)) \X (1..Len(line)) :
            /\ p[1] <= p[2]
            /\ \A k \in p[1]..p[2] : line[k] \notin NonWord
            /\ p[1] = 1 \/ line[p[1] - 1] \in NonWord
            /\ p[2] = Len(line) \/ line[p[2] + 1] \in NonWord}}

(* the values of the 4-digit tokens of a text *)
YearTokens(lines) ==
    {Decimal(t, 0) : t \in {u \in UNION {Tokens(lines[l]) : l \in 1..Len(lines)} :
                               Len(u) = 4 /\ \A k \in 1..4 : u[k] \in Digits}}

Decodable(bytes) == Utf8(bytes).ok \/ Latin1(bytes).ok \/ Cp1252(bytes).ok

(* C19: a file that is not valid UTF-8 but decodes under a later encoding   *)
(* is parsed and its JSON output written; a file is reported as failed for  *)
(* decoding reasons only if it cannot be decoded under any of the attempted *)
(* encodings.                                                               *)
C19_EncodingFallback ==
    \A k \in 1..(dir.i - 1) :
        LET f == SortedArchivos(dir.archivos)[k]
        IN  (f.existe /\ Decodable(f.bytes)) =>
                /\ \E j \in 1..Len(dir.salida) : dir.salida[j].nombre = f.nombre
                /\ \A j \in 1..Len(dir.errores) : dir.errores[j].nombre # f.nombre

----------------------------------------------------------------------------
(* parse_law.py: split_text_by_chapters                                     *)
(*                                                                          *)
(* A text is the sequence of its lines, text.split('\n'); the empty string  *)
(* is the one empty line.  X3000 is a word of 3000 characters.              *)

EmptyText == <<<<>>>>

(* '\n'.join(lines) *)
JoinLines(ls) == IF ls = <<>> THEN EmptyText ELSE ls

(* text.strip() on a text given by its lines *)
StripText(ls) ==
    LET nb == {k \in 1..Len(ls) : Strip(ls[k]) # <<>>}
    IN  IF nb = {} THEN EmptyText
        ELSE LET a == Min(nb)
                 b == Max(nb)
             IN  [k \in 1..(b - a + 1) |->
                     IF a = b THEN Strip(ls[a])
                     ELSE IF k = 1 THEN From(ls[a], SkipWhile(ls[a], 1, WS))
                     ELSE IF k = b - a + 1 THEN SubSeq(ls[b], 1, SkipBack(ls[b], WS))
                     ELSE ls[a + k - 1]]

(* len(text) *)
TextLen(ls) ==
    LET RECURSIVE sum(_)
        sum(k) == IF k = 0 THEN 0 ELSE StrLen(ls[k]) + sum(k - 1)
    IN  sum(Len(ls)) + (Len(ls) - 1)

(* chapter_pattern:                                                         *)
(* ^\s*(TITULO|CAPITULO|LIBRO|SECCION|Seccion|Capitulo)\s+ , IGNORECASE     *)
ChapterLine(line) ==
    LET j == SkipWhile(line, 1, WS)
    IN  \E w \in {<<"TITULO">>, <<"C", "APITULO">>, <<"L", "IBRO">>, <<"SECCION">>} :
            LitAt(line, j, w, TRUE) /\ At(line, j + Len(w)) \in WS

(* article_pattern: ^\s*(Articulo|ARTICULO|ART\.?)\s+\d+ , IGNORECASE       *)
ArticleLine(line) ==
    LET j == SkipWhile(line, 1, WS)
        k == IF LitAt(line, j, <<"ARTICULO">>, TRUE) THEN j + 1
             ELSE IF LitAt(line, j, <<"ART">>, TRUE)
                  THEN (IF At(line, j + 1) = "." /\ At(line, j + 2) \in WS
                        THEN j + 2 ELSE j + 1)
             ELSE 0
    IN  /\ k # 0
        /\ At(line, k) \in WS
        /\ At(line, SkipWhile(line, k, WS)) \in Digits

(* transitorio_pattern: ^\s*(TRANSITORIOS?|ARTICULOS?\s+TRANSITORIOS?|      *)
(* DE\s+LOS\s+ARTICULOS?\s+TRANSITORIOS?|T\s+R\s+A\s+N\s+S\s+I\s+T\s+O\s+R\s+I\s+O\s+S) *)
(* with IGNORECASE                                                          *)
TransitorioWord(line, i) ==
    Upper(At(line, i)) \in {"TRANSITORIOS", "TRANSITORIO"}

ArticulosTransitorios(line, i) ==
    /\ LitAt(line, i, <<"ARTICULO">>, TRUE)
    /\ LET a == IF Upper(At(line, i + 1)) = "S" THEN i + 2 ELSE i + 1
           b == SkipWhile(line, a, WS)
       IN  b > a /\ TransitorioWord(line, b)

TransitorioLine(line) ==
    LET j == SkipWhile(line, 1, WS)
        de == MatchWordsWS(line, j, << <<"D", "E">>, <<"L", "OS">> >>)
        sp == MatchWordsWS(line, j, << <<"T">>, <<"R">>, <<"A">>, <<"N">>, <<"S">>, <<"I">>,
                                       <<"T">>, <<"O">>, <<"R">>, <<"I">>, <<"O">> >>)
    IN  \/ TransitorioWord(line, j)
        \/ ArticulosTransitorios(line, j)
        \/ de # 0 /\ ArticulosTransitorios(line, de)
        \/ sp # 0 /\ Upper(At(line, sp)) = "S"

NormativeLine(line) == ChapterLine(line) \/ ArticleLine(line)

(* index (0-based) of the first line of the set hits, -1 when it is empty *)
FirstLine(hits) == IF hits = {} THEN 0 - 1 ELSE Min(hits)

NormativeStart(ls) ==
    FirstLine({i \in 0..(Len(ls) - 1) : NormativeLine(ls[i + 1])})

TransitorioStart(ls) ==
    FirstLine({i \in 0..(Len(ls) - 1) : TransitorioLine(ls[i + 1])})

(* lines[a:b] *)
Slice(ls, a, b) == SubSeq(ls, a + 1, IF b > Len(ls) THEN Len(ls) ELSE b)

(* "chunk_size_limit = 3000" *)
chunk_size_limit == 3000

(* "Si el chunk es muy grande, dividirlo por articulos" *)
RECURSIVE ArticleChunks(_, _, _)
ArticleChunks(current_chunk, current_article_chunk, article_chunks) ==
    IF current_chunk = <<>>
    THEN (IF current_article_chunk # <<>>
          THEN Append(article_chunks, current_article_chunk) ELSE article_chunks)
    ELSE IF ArticleLine(Head(current_chunk)) /\ current_article_chunk # <<>>
    THEN ArticleChunks(Tail(current_chunk), <<Head(current_chunk)>>,
                       Append(article_chunks, current_article_chunk))
    ELSE ArticleChunks(Tail(current_chunk),
                       Append(current_article_chunk, Head(current_chunk)), article_chunks)

(* the chunks added for one current_chunk *)
ChunksOf(current_chunk) ==
    IF TextLen(current_chunk) > chunk_size_limit
    THEN ArticleChunks(current_chunk, <<>>, <<>>)
    ELSE <<current_chunk>>

(* "for line in normative_text.split('\n')" and "Agregar el ultimo chunk" *)
RECURSIVE ChunkLoop(_, _, _)
ChunkLoop(ls, current_chunk, normative_chunks) ==
    IF ls = <<>>
    THEN (IF current_chunk # <<>>
          THEN normative_chunks \o ChunksOf(current_chunk) ELSE normative_chunks)
    ELSE IF ChapterLine(Head(ls)) /\ current_chunk # <<>>
    THEN ChunkLoop(Tail(ls), <<Head(ls)>>, normative_chunks \o ChunksOf(current_chunk))
    ELSE ChunkLoop(Tail(ls), Append(current_chunk, Head(ls)), normative_chunks)

split_text_by_chapters(text) ==
    LET lines == StripText(text)
        normative_start == NormativeStart(lines)
        transitorio_start == TransitorioStart(lines)
        decreto_text ==
            IF normative_start = 0 - 1 THEN JoinLines(lines)
            ELSE IF normative_start > 0 THEN JoinLines(Slice(lines, 0, normative_start))
            ELSE EmptyText
        normative_text ==
            IF normative_start = 0 - 1 THEN EmptyText
            ELSE IF transitorio_start = 0 - 1
            THEN JoinLines(Slice(lines, normative_start, Len(lines)))
            ELSE JoinLines(Slice(lines, normative_start, transitorio_start))
        transitorio_text ==
            IF normative_start = 0 - 1 \/ transitorio_start = 0 - 1 THEN EmptyText
            ELSE JoinLines(Slice(lines, transitorio_start, Len(lines)))
    IN  [decreto |-> StripText(decreto_text),
         normative_chunks |-> IF StripText(normative_text) # EmptyText
                              THEN ChunkLoop(normative_text, <<>>, <<>>) ELSE <<>>,
         transitorio |-> StripText(transitorio_text)]

----------------------------------------------------------------------------
(* parse_law.py: process_chunk and main                                     *)

MaxLlmLines == 3

(* "foo bar", "CAPITULO I", "Articulo 1. foo", "Articulo 2 <3000 chars>",   *)
(* "TRANSITORIOS", "Primero. foo"                                           *)
LlmVocab ==
    {<<"foo", " ", "bar">>,
     <<"C", "APITULO", " ", "I">>,
     <<"Articulo", " ", "1", ".", " ", "foo">>,
     <<"Articulo", " ", "2", " ", "X3000">>,
     <<"TRANSITORIOS">>,
     <<"Primero", ".", " ", "foo">>}

LlmDocs == SeqsUpTo(LlmVocab, MaxLlmLines)

(* a JSON object returned for a fragment: vacio for {}; valido when it      *)
(* follows the schema of its fragment; articulos counts the permanent       *)
(* articles of its chapters; lista unless its chapters value is one that    *)
(* list.extend cannot iterate (null, a number)                              *)
EmptyDict == [vacio |-> TRUE, valido |-> TRUE, articulos |-> 0, lista |-> TRUE]

(* what client.chat.completions.create and json.loads can give for a        *)
(* fragment: an exception of the service, a content that is not JSON, or a  *)
(* JSON object                                                              *)
Responses(chunk_type) ==
    {[tipo |-> "error", result |-> EmptyDict],
     [tipo |-> "malformed", result |-> EmptyDict]}
    \cup {[tipo |-> "ok", result |-> [vacio |-> FALSE, valido |-> v, articulos |-> n,
                                       lista |-> TRUE]] :
             v \in BOOLEAN,
             n \in IF chunk_type = "normative" THEN {0, 1} ELSE {0}}
    \cup (IF chunk_type = "normative"
          THEN {[tipo |-> "ok", result |-> [vacio |-> FALSE, valido |-> FALSE,
                                            articulos |-> 0, lista |-> FALSE]]}
          ELSE {})

(* a variant of process_chunk that sends the request again after a failure *)
process_chunk_Reintenta(l, frag, resp) ==
    [l EXCEPT !.sent = IF resp.tipo = "ok"
                       THEN Append(@, [frag |-> frag, tipo |-> resp.tipo])
                       ELSE @ \o <<[frag |-> frag, tipo |-> resp.tipo],
                                   [frag |-> frag, tipo |-> resp.tipo]>>,
              !.ret = IF resp.tipo = "ok" THEN resp.result ELSE EmptyDict,
              !.log = IF resp.tipo = "ok" THEN @ ELSE Append(@, [nivel |-> "ERROR", frag |-> frag])]

(* process_chunk: one request; on any exception an ERROR line is logged and *)
(* {} returned                                                              *)
process_chunk(l, frag, resp) ==
    [l EXCEPT !.sent = Append(@, [frag |-> frag, tipo |-> resp.tipo]),
              !.ret = IF resp.tipo = "ok" THEN resp.result ELSE EmptyDict,
              !.log = IF resp.tipo = "ok" THEN @ ELSE Append(@, [nivel |-> "ERROR", frag |-> frag])]

(* the fragments: the preamble, the k-th normative chunk, the transitory *)
FragDecreto == [tipo |-> "decreto", k |-> 0]
FragNormative(k) == [tipo |-> "normative", k |-> k]
FragTransitorio == [tipo |-> "transitorio", k |-> 0]

InitLlm ==
    /\ contenido = <<>>
    /\ pc = "main"
    /\ decreto = None
    /\ titulo = <<>>
    /\ capitulos = <<>>
    /\ transitorios = <<>>
    /\ ley = NoLey
    /\ dir = NoDir
    /\ \E text \in LlmDocs : llm = [NoLlm EXCEPT !.text = text]
    /\ call = NoCall

(* text_sections = split_text_by_chapters(clean_text) *)
DividirTexto ==
    /\ pc = "main"
    /\ llm' = [llm EXCEPT !.sections = split_text_by_chapters(llm.text),
                          !.decreto_data = EmptyDict,
                          !.transitorio_data = EmptyDict,
                          !.ret = EmptyDict]
    /\ pc' = "decreto"
    /\ UNCHANGED <<contenido, decreto, titulo, capitulos, transitorios, ley, dir, call>>

(* "if text_sections['decreto']: decreto_data = process_chunk(...)" *)
ProcesarDecreto ==
    /\ pc = "decreto"
    /\ \E resp \in Responses("decreto") :
          llm' = IF llm.sections.decreto # EmptyText
                 THEN [process_chunk(llm, FragDecreto, resp) EXCEPT
                          !.decreto_data = process_chunk(llm, FragDecreto, resp).ret,
                          !.i = 1]
                 ELSE [llm EXCEPT !.i = 1]
    /\ pc' = "normative"
    /\ UNCHANGED <<contenido, decreto, titulo, capitulos, transitorios, ley, dir, call>>

(* one iteration of "for i, chunk in enumerate(normative_chunks)" *)
ProcesarNormativo ==
    /\ pc = "normative"
    /\ llm.i <= Len(llm.sections.normative_chunks)
    /\ \E resp \in Responses("normative") :
          llm' = [process_chunk(llm, FragNormative(llm.i), resp) EXCEPT
                     !.normative_chunks_data =
                         Append(@, process_chunk(llm, FragNormative(llm.i), resp).ret),
                     !.i = @ + 1]
    /\ UNCHANGED <<pc, contenido, decreto, titulo, capitulos, transitorios, ley, dir, call>>

(* "if text_sections['transitorio']: transitorio_data = process_chunk(...)" *)
ProcesarTransitorio ==
    /\ pc = "normative"
    /\ llm.i > Len(llm.sections.normative_chunks)
    /\ \E resp \in Responses("transitorio") :
          llm' = IF llm.sections.transitorio # EmptyText
                 THEN [process_chunk(llm, FragTransitorio, resp) EXCEPT
                          !.transitorio_data =
                              process_chunk(llm, FragTransitorio, resp).ret]
                 ELSE llm
    /\ pc' = "ensamblar"
    /\ UNCHANGED <<contenido, decreto, titulo, capitulos, transitorios, ley, dir, call>>

(* the line main or process_chunk appends to the log *)
MainFrag == [tipo |-> "main", k |-> 0]
LogLine(nivel) == [nivel |-> nivel, frag |-> MainFrag]

(* "final_doc['Capitulos'].extend(chunk_data['Capitulos'])" raises a         *)
(* TypeError for a value that is not iterable                               *)
ExtendRaises(normative_chunks_data) ==
    \E k \in 1..Len(normative_chunks_data) : ~normative_chunks_data[k].lista

RECURSIVE SumArticulos(_)
SumArticulos(normative_chunks_data) ==
    IF normative_chunks_data = <<>> THEN 0
    ELSE Head(normative_chunks_data).articulos + SumArticulos(Tail(normative_chunks_data))

(* assemble_final_json: the preamble fields with their defaults, the        *)
(* chapters of every normative chunk in order, the transitory list          *)
assemble_final_json(decreto_data, normative_chunks_data, transitorio_data) ==
    [valido |-> /\ decreto_data.valido
                /\ \A k \in 1..Len(normative_chunks_data) : normative_chunks_data[k].valido
                /\ transitorio_data.valido,
     articulos |-> SumArticulos(normative_chunks_data)]

(* a variant of the validation that accepts every document *)
model_validate_Siempre(final_doc) == TRUE

(* LeyDoc.model_validate(final_doc) succeeds *)
model_validate(final_doc) == final_doc.valido

(* total_articulos = sum(len(c.Articulos) for c in ley_doc.Capitulos) *)
total_articulos(final_doc) == final_doc.articulos

(* final_doc = assemble_final_json(...); an exception raised there is not   *)
(* caught: the interpreter ends with status 1                               *)
Ensamblar ==
    /\ pc = "ensamblar"
    /\ IF ExtendRaises(llm.normative_chunks_data)
       THEN /\ llm' = [llm EXCEPT !.status = 1]
            /\ pc' = "exit"
       ELSE /\ llm' = [llm EXCEPT !.final_doc =
                           assemble_final_json(llm.decreto_data,
                                               llm.normative_chunks_data,
                                               llm.transitorio_data)]
            /\ pc' = "validar"
    /\ UNCHANGED <<contenido, decreto, titulo, capitulos, transitorios, ley, dir, call>>

(* "try: ley_doc = LeyDoc.model_validate(final_doc)                          *)
(*  except ValidationError: log(ERROR); sys.exit(1)"                        *)
Validar ==
    /\ pc = "validar"
    /\ IF model_validate(llm.final_doc)
       THEN /\ pc' = "contenido"
            /\ UNCHANGED llm
       ELSE /\ pc' = "exit"
            /\ llm' = [llm EXCEPT !.log = Append(@, LogLine("ERROR")), !.status = 1]
    /\ UNCHANGED <<contenido, decreto, titulo, capitulos, transitorios, ley, dir, call>>

(* "if total_articulos == 0: log(ERROR); sys.exit(1)" *)
ValidarContenido ==
    /\ pc = "contenido"
    /\ IF total_articulos(llm.final_doc) = 0
       THEN /\ pc' = "exit"
            /\ llm' = [llm EXCEPT !.log = Append(@, LogLine("ERROR")), !.status = 1]
       ELSE /\ pc' = "escribir"
            /\ UNCHANGED llm
    /\ UNCHANGED <<contenido, decreto, titulo, capitulos, transitorios, ley, dir, call>>

(* "try: open(out_path, 'w'); json.dump(...); log(SUCCESS)                   *)
(*  except Exception: log(ERROR); sys.exit(1)": the write succeeds, or it   *)
(* fails before the file exists, or it fails with the file half written     *)
EscribirJsonLlm ==
    /\ pc = "escribir"
    /\ \E w \in {"json", "no", "parcial"} :
          llm' = IF w = "json"
                 THEN [llm EXCEPT !.written = w, !.status = 0,
                                  !.log = Append(@, LogLine("SUCCESS"))]
                 ELSE [llm EXCEPT !.written = w, !.status = 1,
                                  !.log = Append(@, LogLine("ERROR"))]
    /\ pc' = "exit"
    /\ UNCHANGED <<contenido, decreto, titulo, capitulos, transitorios, ley, dir, call>>

NextLlm ==
    \/ DividirTexto
    \/ ProcesarDecreto
    \/ ProcesarNormativo
    \/ ProcesarTransitorio
    \/ Ensamblar
    \/ Validar
    \/ ValidarContenido
    \/ EscribirJsonLlm

SpecLlm == InitLlm /\ [][NextLlm]_vars

(* the fragments main has to send, in document order *)
ExpectedFrags(sections) ==
    (IF sections.decreto # EmptyText THEN <<FragDecreto>> ELSE <<>>)
    \o [k \in 1..Len(sections.normative_chunks) |-> FragNormative(k)]
    \o (IF sections.transitorio # EmptyText THEN <<FragTransitorio>> ELSE <<>>)

(* C20: each fragment is sent to the extraction service at most once: when *)
(* a request fails, process_chunk logs an error and returns an empty result *)
(* without retrying, and main goes on to the remaining fragments in         *)
(* document order.                                                          *)
C20_NoRetry ==
    pc \in {"decreto", "normative", "ensamblar"} =>
        LET sent == llm.sent
            exp == ExpectedFrags(llm.sections)
            failed == SelectSeq(sent, LAMBDA e : e.tipo # "ok")
        IN  /\ Len(sent) <= Len(exp)
            /\ \A k \in 1..Len(sent) : sent[k].frag = exp[k]
            /\ pc = "ensamblar" => Len(sent) = Len(exp)
            /\ llm.log = [k \in 1..Len(failed) |->
                             [nivel |-> "ERROR", frag |-> failed[k].frag]]
            /\ \A k \in 1..Len(sent) :
                  sent[k].tipo # "ok" =>
                      CASE sent[k].frag.tipo = "decreto" -> llm.decreto_data = EmptyDict
                        [] sent[k].frag.tipo = "transitorio" ->
                               llm.transitorio_data = EmptyDict
                        [] OTHER ->
                               llm.normative_chunks_data[sent[k].frag.k] = EmptyDict

(* the request for the preamble failed and the request for a later          *)
(* normative chunk failed too; the transitory fragment was still sent       *)
C20_Witness ==
    /\ pc = "ensamblar"
    /\ Len(llm.sent) >= 3
    /\ llm.sent[1].frag = FragDecreto
    /\ llm.sent[1].tipo = "error"
    /\ llm.sent[2].tipo = "malformed"
    /\ llm.sent[Len(llm.sent)].frag = FragTransitorio
    /\ llm.sent[Len(llm.sent)].tipo = "ok"

(* the assembled document follows the schema, as read off the fragments'    *)
(* results                                                                  *)
DocValido ==
    /\ llm.decreto_data.valido
    /\ llm.transitorio_data.valido
    /\ \A k \in 1..Len(llm.normative_chunks_data) : llm.normative_chunks_data[k].valido

(* the assembled document has a permanent article *)
DocConArticulos ==
    \E k \in 1..Len(llm.normative_chunks_data) : llm.normative_chunks_data[k].articulos > 0

(* the document was assembled: no chunk made assemble_final_json raise *)
Ensamblado ==
    \A k \in 1..Len(llm.normative_chunks_data) : llm.normative_chunks_data[k].lista

(* C21: main writes the output JSON only after the assembled document has   *)
(* passed schema validation and contains at least one permanent article;    *)
(* when validation fails or no permanent article is detected it logs an     *)
(* ERROR and exits with status 1 without writing any JSON file.             *)
C21_WriteAfterValidation ==
    /\ llm.written # "no" => (pc = "exit" /\ Ensamblado /\ DocValido /\ DocConArticulos)
    /\ (pc = "exit" /\ Ensamblado /\ ~(DocValido /\ DocConArticulos)) =>
           /\ llm.written = "no"
           /\ llm.status = 1
           /\ llm.log # <<>>
           /\ llm.log[Len(llm.log)] = LogLine("ERROR")

(* every fragment was answered, one answer breaks the schema, and main has  *)
(* exited                                                                   *)
C21_Witness ==
    /\ pc = "exit"
    /\ Ensamblado
    /\ ~DocValido
    /\ DocConArticulos
    /\ \A k \in 1..Len(llm.sent) : llm.sent[k].tipo = "ok"
    /\ llm.status = 1

----------------------------------------------------------------------------
(* parsear_articulos called on its own, for any range of any text           *)

MaxArtLines == 4

(* "CAPITULO I", "Articulo 1. foo", "Articulo 2.", "I. bar", "II.",         *)
(* "foo bar", a blank line                                                  *)
ArtVocab ==
    {<<"C", "APITULO", " ", "I">>,
     <<"Articulo", " ", "1", ".", " ", "foo">>,
     <<"Articulo", " ", "2", ".">>,
     <<"I", ".", " ", "bar">>,
     <<"I", "I", ".">>,
     <<"foo", " ", "bar">>,
     <<" ">>}

ArtDocs == SeqsUpTo(ArtVocab, MaxArtLines)

InitArt ==
    /\ contenido \in ArtDocs
    /\ pc = "articulos"
    /\ decreto = None
    /\ titulo = <<>>
    /\ capitulos = <<>>
    /\ transitorios = <<>>
    /\ ley = NoLey
    /\ dir = NoDir
    /\ llm = NoLlm
    /\ \E inicio \in 0..1 : \E fin \in inicio..Len(contenido) :
          call = [inicio |-> inicio, fin |-> fin, ret |-> <<>>]

(* articulos = self.parsear_articulos(contenido, inicio, fin) *)
LlamarArticulos ==
    /\ pc = "articulos"
    /\ call' = [call EXCEPT !.ret = parsear_articulos(contenido, call.inicio, call.fin)]
    /\ pc' = "articulos_ret"
    /\ UNCHANGED <<contenido, decreto, titulo, capitulos, transitorios, ley, dir, llm>>

NextArt == LlamarArticulos

SpecArt == InitArt /\ [][NextArt]_vars

(* the lines of the range that match the chapter-header pattern *)
ChapterLinesInRange ==
    {ln \in call.inicio..(call.fin - 1) : MatchCapitulo(Strip(contenido[ln + 1]))}

(* C22: when a line inside the given range matches the chapter-header       *)
(* pattern, consumption stops at once: the article in progress is closed    *)
(* with only the text accumulated before that line, and no line at or after *)
(* the chapter header contributes to any article returned for this range.   *)
C22_StopAtChapter ==
    (pc = "articulos_ret" /\ ChapterLinesInRange # {}) =>
        LET stop == Min(ChapterLinesInRange)
        IN  /\ \A k \in 1..Len(call.ret) :
                  /\ call.ret[k].hdr < stop
                  /\ \A ln \in ArticleLines(call.ret[k]) : ln < stop
                  /\ \A f \in 1..Len(call.ret[k].fracciones) :
                        call.ret[k].fracciones[f].hdr < stop
            /\ call.ret = parsear_articulos(contenido, call.inicio, stop)

(* an article with text is in progress when the chapter header comes, and   *)
(* an article header with text follows the chapter header inside the range  *)
C22_Witness ==
    /\ pc = "articulos_ret"
    /\ ChapterLinesInRange # {}
    /\ call.ret # <<>>
    /\ call.ret[Len(call.ret)].src # {}
    /\ \E ln \in call.inicio..(call.fin - 1) :
          /\ ln > Min(ChapterLinesInRange)
          /\ MatchArticulo(Strip(contenido[ln + 1])).ok
          /\ MatchArticulo(Strip(contenido[ln + 1])).g2 # <<>>

(* the end of the slice lines[inicio:fin] *)
RangeEnd == IF call.fin < Len(contenido) THEN call.fin ELSE Len(contenido)

(* the lines of the range that match the article-header pattern *)
ArtHeaderLines ==
    {ln \in call.inicio..(RangeEnd - 1) : MatchArticulo(Strip(contenido[ln + 1])).ok}

(* the line after the last line that follows header h: the next article    *)
(* header, the chapter header that ends the scan, or the range end          *)
SpanEnd(h) ==
    Min({ln \in ArtHeaderLines \cup ChapterLinesInRange : ln > h} \cup {RangeEnd})

(* the lines an article took something from: its header, the lines of its   *)
(* body, the headers and the lines of its fracciones                        *)
Contrib(a) ==
    {a.hdr} \cup ArticleLines(a) \cup {a.fracciones[f].hdr : f \in 1..Len(a.fracciones)}

(* line ln gave something to the article whose header is line h *)
Contributes(h, ln) ==
    \E k \in 1..Len(call.ret) : call.ret[k].hdr = h /\ ln \in Contrib(call.ret[k])

(* line ln gave something to some article *)
ContributesAny(ln) ==
    \E k \in 1..Len(call.ret) : ln \in Contrib(call.ret[k])

(* line ln is a sub-item header without text of its own, nothing but blank  *)
(* lines separates it from the next sub-item header or from the end of the  *)
(* span of header h, and the article of h has a sub-item                    *)
EmptySubItemHeader(h, ln) ==
    LET m == MatchFraccion(Strip(contenido[ln + 1]))
        rest == {j \in (ln + 1)..(SpanEnd(h) - 1) : ~IsBlank(contenido, j)}
    IN  /\ m.ok
        /\ m.g2 = <<>>
        /\ rest # {} => MatchFraccion(Strip(contenido[Min(rest) + 1])).ok
        /\ \E k \in 1..Len(call.ret) :
              call.ret[k].hdr = h /\ call.ret[k].fracciones # <<>>

(* C23: every non-blank line that lies after an article header and before  *)
(* the next article header or the range end (the chapter header that ends   *)
(* the scan counting as the range end) contributes its text to that         *)
(* article, to its body or to one of its sub-items; no such line is         *)
(* dropped, and blank lines contribute nothing.                             *)
C23_NoLineDropped ==
    pc = "articulos_ret" =>
        \A h \in ArtHeaderLines :
            (\A c \in ChapterLinesInRange : h < c) =>
                \A ln \in (h + 1)..(SpanEnd(h) - 1) :
                    IF IsBlank(contenido, ln) THEN ~ContributesAny(ln)
                    ELSE Contributes(h, ln)

(* the lines that are dropped are exactly the sub-item headers without text *)
(* that give no sub-item in an article that has one                         *)
DroppedLines ==
    pc = "articulos_ret" =>
        \A h \in ArtHeaderLines :
            (\A c \in ChapterLinesInRange : h < c) =>
                \A ln \in (h + 1)..(SpanEnd(h) - 1) :
                    IF IsBlank(contenido, ln) THEN ~ContributesAny(ln)
                    ELSE Contributes(h, ln) <=> ~EmptySubItemHeader(h, ln)

----------------------------------------------------------------------------
(* Headers without text, under procesar_archivo                             *)

(* the lines of range c of parsear_articulos *)
CallLines(c) == c.inicio..((IF c.fin < Len(contenido) THEN c.fin ELSE Len(contenido)) - 1)

(* the article header lines of range c *)
CallHeaders(c) == {ln \in CallLines(c) : MatchArticulo(Strip(contenido[ln + 1])).ok}

(* the lines after article header h up to the next article header of range  *)
(* c or the end of the range                                                *)
AfterHeader(c, h) ==
    {ln \in CallLines(c) : ln > h /\ \A k \in CallHeaders(c) : k > h => ln < k}

(* article header h of range c has no inline text and only blank lines      *)
(* after it                                                                 *)
EmptyArticleHeader(c, h) ==
    /\ MatchArticulo(Strip(contenido[h + 1])).g2 = <<>>
    /\ \A ln \in AfterHeader(c, h) : IsBlank(contenido, ln)

(* line ln after article header h is a sub-item header without inline text  *)
(* and with only blank lines up to the next sub-item header or the end of   *)
(* the article                                                              *)
EmptyFraccionHeader(c, h, ln) ==
    LET m == MatchFraccion(Strip(contenido[ln + 1]))
        rest == {j \in AfterHeader(c, h) : j > ln /\ ~IsBlank(contenido, j)}
    IN  /\ m.ok
        /\ m.g2 = <<>>
        /\ rest # {} => MatchFraccion(Strip(contenido[Min(rest) + 1])).ok

(* line ln after the transitorios header is an item header without inline   *)
(* text and with only blank lines up to the next item header or the end of  *)
(* the text                                                                 *)
EmptyTransitorioHeader(ln) ==
    LET m == MatchTransitorioItem(Strip(contenido[ln + 1]))
        rest == {j \in LineNumbers(contenido) : j > ln /\ ~IsBlank(contenido, j)}
    IN  /\ InicioTransitorios(contenido) # 0 - 1
        /\ ln > InicioTransitorios(contenido)
        /\ m.ok
        /\ m.g2 = <<>>
        /\ rest # {} => MatchTransitorioItem(Strip(contenido[Min(rest) + 1])).ok

(* all the articles of the chapters tree *)
AllArticulos ==
    UNION {{capitulos[i].articulos[j] : j \in 1..Len(capitulos[i].articulos)} :
              i \in 1..Len(capitulos)}

(* C24: a header with no accumulated text produces no unit: an article      *)
(* header, sub-item header or transitory item header without inline text    *)
(* and without a following non-blank line before the next header of its     *)
(* kind or the end of its range is dropped.  So every sub-item and every    *)
(* transitory article has a non-empty body and every article has a          *)
(* non-empty body or at least one sub-item.                                 *)
C24_NoEmptyUnit ==
    /\ PostCapitulos =>
          /\ \A a \in AllArticulos :
                /\ a.texto # <<>> \/ a.fracciones # <<>>
                /\ \A f \in 1..Len(a.fracciones) : a.fracciones[f].texto # <<>>
          /\ \A k \in 1..Len(ArticulosCalls(contenido)) :
                LET c == ArticulosCalls(contenido)[k]
                IN  \A h \in CallHeaders(c) :
                        /\ EmptyArticleHeader(c, h) => \A a \in AllArticulos : a.hdr # h
                        /\ \A ln \in AfterHeader(c, h) :
                              EmptyFraccionHeader(c, h, ln) =>
                                  \A a \in AllArticulos : \A f \in 1..Len(a.fracciones) :
                                      a.fracciones[f].hdr # ln
    /\ PostTransitorios =>
          /\ \A t \in 1..Len(transitorios) : transitorios[t].texto # <<>>
          /\ \A ln \in LineNumbers(contenido) :
                EmptyTransitorioHeader(ln) =>
                    \A t \in 1..Len(transitorios) : transitorios[t].hdr # ln

(* an article header without text was dropped, another article came back,   *)
(* and fewer articles came back than there are article header lines         *)
C24_Witness ==
    /\ PostTransitorios
    /\ \E k \in 1..Len(ArticulosCalls(contenido)) :
          LET c == ArticulosCalls(contenido)[k]
          IN  \E h \in CallHeaders(c) :
                  /\ EmptyArticleHeader(c, h)
                  /\ \E a \in AllArticulos : a.hdr > h
    /\ Cardinality(AllArticulos) <
           Cardinality({ln \in LineNumbers(contenido) :
                           MatchArticulo(Strip(contenido[ln + 1])).ok})

----------------------------------------------------------------------------
(* The loop of procesar_directorio_clean                                    *)

(* the names of a list of reports *)
Nombres(rs) == {rs[k].nombre : k \in 1..Len(rs)}

(* the names of a list of reports go up *)
Ascending(rs) == \A a, b \in 1..Len(rs) : a < b => rs[a].nombre < rs[b].nombre

(* the file of the listing with the given name *)
FileByName(n) == dir.archivos[CHOOSE k \in 1..Len(dir.archivos) : dir.archivos[k].nombre = n]

(* the loop is running or over *)
InLoop == dir.i >= 1

(* C25: files are processed one at a time in sorted path order; a missing   *)
(* file or an exception raised while processing one file is reported for    *)
(* that file only and never prevents the remaining files from being         *)
(* processed, and a JSON file is written for a file only if every step      *)
(* before the write (parse, year inference) completed without an exception. *)
C25_PerFileErrors ==
    InLoop =>
        /\ Nombres(dir.salida) \cup Nombres(dir.errores) = 1..(dir.i - 1)
        /\ Nombres(dir.salida) \cap Nombres(dir.errores) = {}
        /\ Len(dir.salida) + Len(dir.errores) = dir.i - 1
        /\ Ascending(dir.salida)
        /\ Ascending(dir.errores)
        /\ pc \notin {"archivo", "fin"} => Archivo.nombre = dir.i
        /\ pc = "fin" => dir.i - 1 = Len(dir.archivos)
        /\ \A n \in Nombres(dir.salida) :
              /\ FileByName(n).existe
              /\ LeerContenido(FileByName(n).bytes).ok
              /\ Utf8(FileByName(n).bytes).ok
        /\ \A k \in 1..Len(dir.errores) :
              dir.errores[k].motivo = "no encontrado" <=>
                  ~FileByName(dir.errores[k].nombre).existe

(* the listing is not in sorted order, the file that sorts first raised an  *)
(* exception and the file after it was written                              *)
C25_Witness ==
    /\ pc = "fin"
    /\ Len(dir.archivos) = 2
    /\ dir.archivos[1].nombre > dir.archivos[2].nombre
    /\ dir.errores = <<[nombre |-> 1, motivo |-> "excepcion"]>>
    /\ Nombres(dir.salida) = {2}

----------------------------------------------------------------------------
(* The fragments of split_text_by_chapters                                  *)

(* the sections have been computed *)
Dividido == pc \in {"decreto", "normative", "ensamblar", "validar", "contenido",
                    "escribir", "exit"}

(* the lines of a fragment: none for the empty string *)
LinesOf(t) == IF t = EmptyText THEN <<>> ELSE t

(* the lines of the stripped input *)
InputLines == LinesOf(StripText(llm.text))

(* the lines of all normative chunks, in order *)
ChunkLines == Flatten(llm.sections.normative_chunks)

(* C26: split_text_by_chapters partitions the input lines: the preamble,    *)
(* the normative chunks and the transitory fragment, put one after the      *)
(* other, are the lines of the stripped input, each once; the preamble is   *)
(* everything before the first chapter or article header and the transitory *)
(* fragment everything from the first transitory header on, whatever the    *)
(* relative position of the two headers.                                    *)
C26_Partition ==
    Dividido =>
        LET normative_start == NormativeStart(InputLines)
            transitorio_start == TransitorioStart(InputLines)
        IN  /\ LinesOf(llm.sections.decreto) \o ChunkLines
                   \o LinesOf(llm.sections.transitorio) = InputLines
            /\ LinesOf(llm.sections.decreto) =
                   (IF normative_start = 0 - 1 THEN InputLines
                    ELSE SubSeq(InputLines, 1, normative_start))
            /\ LinesOf(llm.sections.transitorio) =
                   (IF transitorio_start = 0 - 1 THEN <<>>
                    ELSE SubSeq(InputLines, transitorio_start + 1, Len(InputLines)))

(* the lines between the first normative header and the first transitory   *)
(* header, the normative text of the code                                   *)
NormativeLines ==
    LET normative_start == NormativeStart(InputLines)
        transitorio_start == TransitorioStart(InputLines)
    IN  IF normative_start = 0 - 1 THEN <<>>
        ELSE SubSeq(InputLines, normative_start + 1,
                    IF transitorio_start = 0 - 1 THEN Len(InputLines)
                    ELSE transitorio_start)

(* joining the chunks gives the normative text back *)
ChunksJoin == Dividido => ChunkLines = NormativeLines

(* a chapter header line is always the first line of a chunk *)
ChunkPerChapter ==
    Dividido =>
        \A k \in 1..Len(llm.sections.normative_chunks) :
            \A j \in 2..Len(llm.sections.normative_chunks[k]) :
                ~ChapterLine(llm.sections.normative_chunks[k][j])

(* C27: joining the returned normative chunks in order with newlines        *)
(* reproduces the normative text exactly; a new chunk starts at every       *)
(* chapter or section header line, and a chunk longer than the              *)
(* 3000-character limit is further split at article header lines, so that   *)
(* every returned chunk is within the limit.                                *)
C27_ChunksWithinLimit ==
    /\ ChunksJoin
    /\ ChunkPerChapter
    /\ Dividido =>
          \A k \in 1..Len(llm.sections.normative_chunks) :
              TextLen(llm.sections.normative_chunks[k]) <= chunk_size_limit

----------------------------------------------------------------------------
(* The ranges parsear_capitulos hands to parsear_articulos                  *)

(* C28: whenever parsear_articulos is invoked by parsear_capitulos, with or *)
(* without explicit chapters, no line of the passed range matches the       *)
(* chapter-header pattern, so the early stop of parsear_articulos never     *)
(* fires on that call path and every article header in the range is reached *)
(* by the scan: each one that has text is the header of a returned article. *)
C28_NoChapterInRange ==
    PostCapitulos =>
        \A k \in 1..Len(ArticulosCalls(contenido)) :
            LET c == ArticulosCalls(contenido)[k]
            IN  /\ \A ln \in CallLines(c) : ~MatchCapitulo(Strip(contenido[ln + 1]))
                /\ \A h \in CallHeaders(c) :
                      ~EmptyArticleHeader(c, h) => \E a \in AllArticulos : a.hdr = h

(* two explicit chapters, each with an article, the second one cut at the   *)
(* transitorios header                                                      *)
C28_Witness ==
    /\ PostCapitulos
    /\ Len(ArticulosCalls(contenido)) >= 2
    /\ Len(capitulos) >= 2
    /\ ArticulosCalls(contenido)[Len(ArticulosCalls(contenido))].fin < Len(contenido)
    /\ \A k \in 1..Len(ArticulosCalls(contenido)) :
          CallHeaders(ArticulosCalls(contenido)[k]) # {}

====
